---- MODULE Spec2Model ----
(***************************************************************************)
(* Numrow: payment settlement and number provisioning.                     *)
(*                                                                         *)
(* The model follows src/run.py (paystack_webhook_handler) and             *)
(* src/workers/payment_worker.py (create_payment_link,                     *)
(* process_webhook_event).  Every webhook request runs as its own asyncio  *)
(* task with its own database session; tasks interleave at the awaits, so  *)
(* each action below is the code between two awaits.  The payment gateway, *)
(* the number provider and the chat API are external: what they answer is  *)
(* chosen freely at every call.                                            *)
(***************************************************************************)
EXTENDS Integers, Sequences, FiniteSets, TLC

(* ------------------------------ bounds --------------------------------- *)
\* Payment rows that create_payment_link inserts in one run.
MaxPayments == 1
\* Webhook requests delivered in one run.
MaxDeliveries == 2
\* Sweeps each background worker makes in one run.
MaxSweeps == 3
\* Restarts of the process in one run.
MaxRestarts == 1
\* Steps of the wall clock in one run.
MaxTicks == 1
\* Price requests made in one run.
MaxQuotes == 2
\* Sweeps each worker starts while its loop is watched.
MaxLoops == 2

(* --------------------------- program constants ------------------------- *)
\* config/constants.py: DEFAULT_TEMP_DURATION_MINUTES
DEFAULT_TEMP_DURATION_MINUTES == 15
\* payment_worker.py: timedelta(days=3), for a new rental and for a renewal
RENTAL_DAYS == 3
\* timedelta(days=3) in minutes, the unit of the model's clock
RentalDelta == RENTAL_DAYS * 24 * 60
\* rental_worker.py: RENEWAL_WARNING_DAYS
RENEWAL_WARNING_DAYS == 3
\* timedelta(days=RENEWAL_WARNING_DAYS) in minutes
WarningDelta == RENEWAL_WARNING_DAYS * 24 * 60
\* config/constants.py: PRICE_CACHE_DURATION, seconds
PRICE_CACHE_DURATION == 3600
\* config/settings.py: PRICE_MARKUP_PERCENTAGE and FX_RATE_CAP
PRICE_MARKUP_PERCENTAGE == 100
FX_RATE_CAP == 1600
\* pricing_worker.py 18: mock_rate = Decimal("1550.75"), in hundredths of a naira
mock_rate == 155075

\* Webhook tasks that may be in flight at once (one per inbound request).
Handlers == {"h1", "h2"}
\* The server gives a request the first free task slot (the tasks are interchangeable)
Before(g, h) == g = "h1" /\ h = "h2"

None == "None"

(* ------------------------------ inputs --------------------------------- *)
\* final_ngn_price values handed to create_payment_link (multiples of 10)
Prices == {1600}
\* amounts in kobo the gateway or a webhook body may state: the price, or another sum
Amounts == {p * 100 : p \in Prices} \cup {p * 100 + 5000 : p \in Prices}

\* quote keys "pricing:<country>:<service>:<type>", as their colon-separated parts
PurchaseRefs == {<<"pricing", "1", "5", t>> : t \in {"temp", "rent"}}

\* settings.PAYSTACK_SECRET_KEY and a key an attacker might use instead
SecretKey == "sk_live"
OtherKey == "sk_other"

\* f"pva-{user.id}-{uuid4().hex[:8]}": one fresh reference per Payment row
TransactionRef(id) == <<"pva", id>>
\* references a webhook may carry: those of the rows, one of no row, and ""
References == {TransactionRef(i) : i \in 1..MaxPayments + 1} \cup {<<"pva", 0>>, <<>>}

\* payload.get("data"): absent (None), or an object with a reference and an amount
NoData == [present |-> FALSE, reference |-> <<>>, amount |-> 0]
Datas == {NoData} \cup [present : {TRUE}, reference : References, amount : Amounts]
\* What the body's bytes hold: a JSON document {"event": .., "data": ..}, or bytes
\* json.loads rejects (json = FALSE)
NotJson == [json |-> FALSE, event |-> "", data |-> NoData]
Contents ==
  {NotJson} \cup [json : {TRUE}, event : {"charge.success", "charge.failed"}, data : Datas]
\* The raw body: the same document may be serialised in more than one way
Bodies == [fmt : {"compact", "spaced"}, content : Contents]

\* hmac.new(key, body, sha512).hexdigest(): a keyed digest of the exact bytes
HmacSha512(key, body) == <<"hmac", key, body>>
\* The same document in the other serialisation
Reformat(body) == [body EXCEPT !.fmt = IF @ = "compact" THEN "spaced" ELSE "compact"]
\* request.headers.get('x-paystack-signature'): absent (None), the digest the
\* gateway computes, one under another key, or one of other bytes
NoSignature == <<>>
Signatures(body) ==
  {NoSignature, HmacSha512(SecretKey, body), HmacSha512(OtherKey, body),
   HmacSha512(SecretKey, Reformat(body))}

\* json.loads(body): the document, whatever its serialisation
JsonLoads(body) == body.content
\* json.loads raises JSONDecodeError on anything else
IsJson(body) == body.content.json

NoRequest ==
  [body |-> [fmt |-> "compact", content |-> NotJson], signature |-> NoSignature]
Requests == UNION {{[body |-> b, signature |-> s] : s \in Signatures(b)} : b \in Bodies}

\* paystack_service.verify_transaction: None (ok = FALSE: HTTP status >= 400, a
\* response without "status", or a transport error), or (status, amount_paid)
VerifyNone == [ok |-> FALSE, status |-> "", amount |-> 0]
VerifyResults ==
  {VerifyNone} \cup [ok : {TRUE}, status : {"success", "failed"}, amount : Amounts]

\* phone numbers the provider hands out
PhoneNumbers == {"+2348000000001", "+2348000000002"}

(* ------------------------------ state ---------------------------------- *)
VARIABLES
  payments,    \* table payments: sequence of rows, id = index
  numbers,     \* table numbers: sequence of rows, id = index
  priceLock,   \* redis pricing_lock:<payment id> -> quote key and expiry time
  now,         \* wall clock, minutes
  pc,          \* per webhook task: where it is suspended
  req,         \* per webhook task: the HTTP request it has read
  loc,         \* per webhook task: its local variables and session objects
  resp,        \* per webhook task: the HTTP status returned, and the line of
               \* process_webhook_event (or run.py) that ended the request
  calls,       \* per payment id: external calls and effects made for it
  delivered,   \* webhook requests received so far
  created      \* Payment rows inserted so far

\* State of the background workers and of the pricing cache
VARIABLES
  smsRows,     \* table sms: sequence of rows
  smsLast,     \* redis sms_last:<number id> -> pva_sms_id of the last message marked
  hashSeed,    \* the seed of str hashes of the running process
  smsw,        \* the SMS polling worker: where it is and its sweep's session
  rentw,       \* the rental status worker: where it is and its sweep's session
  notes,       \* per number id: chat messages delivered to its user by the workers
  priceCache,  \* redis pricing:<country>:<service>:<type> -> price and expiry time
  quotes,      \* price requests made so far: inputs, result, upstream fetches
  links,       \* calls of create_payment_link so far: where each is, what it returned
  clock        \* bookkeeping of the run: sweeps, restarts and clock steps so far

\* the variables process_webhook_event and create_payment_link work on
hvars == <<payments, numbers, priceLock, now, pc, req, loc, resp, calls, delivered, created>>
\* the variables only the workers and the pricing function work on
wvars == <<smsRows, smsLast, hashSeed, smsw, rentw, notes, priceCache, quotes, links, clock>>

vars == <<payments, numbers, priceLock, now, pc, req, loc, resp, calls, delivered, created,
          smsRows, smsLast, hashSeed, smsw, rentw, notes, priceCache, quotes, links, clock>>

\* ids of the seeded row and of the rows a run inserts
PaymentIds == 1..MaxPayments + 1

NoLocals ==
  [reference |-> <<>>, data_amount |-> 0, payment |-> 0, loaded |-> None,
   amount |-> 0, locked |-> <<>>, verified |-> VerifyNone,
   number |-> 0, expires_at |-> 0, notice |-> FALSE,
   country_name |-> None, info |-> None, note |-> None]

NoResponse == [status |-> 0, at |-> None]

\* verify: verify_transaction calls; buy, renew: requests sent to the provider;
\* extend: writes of expires_at; sent: chat messages delivered
NoCalls == [verify |-> 0, buy |-> 0, renew |-> 0, extend |-> 0, sent |-> 0]

\* A database left by an earlier run: one rental bought at time 0 with Payment 1,
\* as process_webhook_event leaves it (lines 66-67 and 120-129)
SettledPayment ==
  [amount_ngn |-> 1600 * 100, status |-> "successful",
   paystack_ref |-> TransactionRef(1),
   locked_price_ref |-> <<"pricing", "1", "5", "rent">>]
SettledNumber ==
  [phone_number |-> "+2348000000001", pva_activation_id |-> "+2348000000001",
   service_code |-> "5", country_code |-> "1", status |-> "active",
   is_rent |-> TRUE, expires_at |-> RentalDelta, renewal_notice_sent |-> FALSE,
   payment_id |-> 1]

(* ------------------------ workers: state ------------------------------- *)
\* ids of the seeded Number row and of the rows a run inserts
NumberIds == 1..MaxPayments + 1

\* message texts the provider may report for a number
Texts == {"A", "B"}
NoText == ""

\* sms_worker.py 75: f"{number.pva_activation_id}_{hash(sms_text)}".  hash() of a
\* str is deterministic within one process and seeded per process; distinct
\* texts are taken to hash differently
PvaSmsId(activation_id, seed, sms_text) == <<activation_id, seed, sms_text>>
\* redis_client.get on a key never set
NoMarker == <<>>

\* A worker between two sweeps (asyncio.sleep); its session is closed
\* no provider call of the sweep has been answered
NoCall == [number |-> 0, countries |-> FALSE, services |-> "", response |-> ""]
SmsAsleep ==
  [pc |-> "sleep", now_utc |-> 0, queue |-> {}, number |-> 0, sms_text |-> NoText,
   expired |-> {}, asked |-> NoCall]
RentalAsleep ==
  [pc |-> "sleep", now_utc |-> 0, queue |-> {}, number |-> 0, price_ngn |-> 0,
   noticed |-> {}, expired |-> {}, flipped |-> {}]

\* sms: SMS notifications per text; renewal: renewal notices; expired: expiry notes;
\* ended: polls of the number the provider answered with a terminal status
NoNotes == [sms |-> [t \in Texts |-> 0], renewal |-> 0, expired |-> 0, ended |-> 0]

\* (country_id, service_id, number_type) a quote is asked for: one combination
\* and the ones that differ from it in the type, the country or the service
QuoteInputs ==
  {<<"1", "5", "temp">>, <<"1", "5", "rent">>, <<"2", "5", "temp">>, <<"1", "6", "temp">>}

\* A key without the number type
CacheKey_NoType(inputs) == "pricing" \o ":" \o inputs[1] \o ":" \o inputs[2]

\* pricing_worker.py 46: f"{REDIS_PRICING_PREFIX}:{country_id}:{service_id}:{number_type}"
CacheKey(inputs) ==
  "pricing" \o ":" \o inputs[1] \o ":" \o inputs[2] \o ":" \o inputs[3]

\* the keys the quote function may use
CacheKeys == {CacheKey(inputs) : inputs \in QuoteInputs}
\* redis_client.get on a key never set: no value.  value: the digits of the string
\* stored; until: when the entry expires; by: the call that stored it
NoEntry == [value |-> <<>>, until |-> 0, by |-> 0]

NoClock == [sms |-> 0, rental |-> 0, restarts |-> 0, ticks |-> 0]

\* constants.py 12: seconds a price lock lives
PRICE_LOCK_DURATION == 900
\* the same in minutes of the model's clock
PriceLockMinutes == PRICE_LOCK_DURATION \div 60

\* no key pricing_lock:<id> in redis: never set, or expired and removed
NoLock == [value |-> <<>>, until |-> 0]
\* redis_client.set(lock_key, price_ref, ex=PRICE_LOCK_DURATION) at the time now
Lock(price_ref) == [value |-> price_ref, until |-> now + PriceLockMinutes]
\* redis holds pricing_lock:<id>: it was set and its expiry time has not come
LockLive(id) ==
  /\ id \in 1..Len(priceLock)
  /\ priceLock[id] # NoLock
  /\ now < priceLock[id].until

\* The workers are asleep, nothing was polled, cached or quoted
InitWorkers ==
  /\ smsRows = <<>>
  /\ smsLast = [n \in NumberIds |-> NoMarker]
  /\ hashSeed = 0
  /\ smsw = SmsAsleep
  /\ rentw = RentalAsleep
  /\ notes = [n \in NumberIds |-> NoNotes]
  /\ priceCache = [k \in CacheKeys |-> NoEntry]
  /\ quotes = <<>>
  /\ links = <<>>
  /\ clock = NoClock

\* The process starts on an empty database, or on the one an earlier run left
Init ==
  /\ \/ payments = <<>> /\ numbers = <<>> /\ priceLock = <<>>
     \/ /\ payments = <<SettledPayment>>
        /\ numbers = <<SettledNumber>>
        /\ priceLock = <<NoLock>>
  /\ now = 0
  /\ pc = [h \in Handlers |-> "idle"]
  /\ req = [h \in Handlers |-> NoRequest]
  /\ loc = [h \in Handlers |-> NoLocals]
  /\ resp = [h \in Handlers |-> NoResponse]
  /\ calls = [p \in PaymentIds |-> NoCalls]
  /\ delivered = 0
  /\ created = 0
  /\ InitWorkers

(* --------------------------- helpers ----------------------------------- *)
\* select(Payment).where(Payment.paystack_ref == reference): id, or 0 for no row
PaymentByRef(reference) ==
  IF \E i \in 1..Len(payments) : payments[i].paystack_ref = reference
  THEN CHOOSE i \in 1..Len(payments) : payments[i].paystack_ref = reference
  ELSE 0

\* payment.locked_price_ref.startswith("renewal:")
IsRenewal(locked) == Len(locked) > 0 /\ locked[1] = "renewal"

\* The request ends: web.Response(status); the session and the locals are dropped
Return(h, status, at) ==
  /\ pc' = [pc EXCEPT ![h] = "done"]
  /\ resp' = [resp EXCEPT ![h] = [status |-> status, at |-> at]]
  /\ loc' = [loc EXCEPT ![h] = NoLocals]

Goto(h, label) == pc' = [pc EXCEPT ![h] = label]

Free(h) == pc[h] \in {"idle", "done"}

(* --------------------- create_payment_link ----------------------------- *)
\* The quote keys the dialog layer passes: a purchase key, or "renewal:<id>" for a
\* Number row that exists (router.py cq_renew_rental)
PriceRefs == PurchaseRefs \cup {<<"renewal", n>> : n \in 1..Len(numbers)}

\* what a finished call that went through returned
LinkDone(id) == [new_payment |-> id, pc |-> "done", called |-> "url", returned |-> "url"]

\* payment_worker.py 21-39, every await succeeding: insert the pending row, set the
\* price lock, get the payment URL from the gateway
create_payment_link(final_ngn_price, price_ref) ==
  /\ created < MaxPayments
  /\ created' = created + 1
  /\ LET id == Len(payments) + 1
         new_payment == [amount_ngn |-> final_ngn_price * 100,
                         status |-> "pending",
                         paystack_ref |-> TransactionRef(id),
                         locked_price_ref |-> price_ref]
     IN /\ payments' = Append(payments, new_payment)
        /\ priceLock' = Append(priceLock, Lock(price_ref))
        /\ links' = Append(links, LinkDone(id))
  /\ UNCHANGED <<numbers, now, pc, req, loc, resp, calls, delivered>>
  /\ UNCHANGED <<smsRows, smsLast, hashSeed, smsw, rentw, notes, priceCache, quotes, clock>>

\* The same call await by await, each of which may fail.
\* payment_worker.py 23-34: look the user up, add the row and commit it. Without
\* the user, or when the commit raises, there is no row and the call returns None
LinkCommit(final_ngn_price, price_ref, committed) ==
  /\ Len(links) < MaxPayments
  /\ IF committed
     THEN LET id == Len(payments) + 1
              new_payment == [amount_ngn |-> final_ngn_price * 100,
                              status |-> "pending",
                              paystack_ref |-> TransactionRef(id),
                              locked_price_ref |-> price_ref]
          IN /\ payments' = Append(payments, new_payment)
             /\ priceLock' = Append(priceLock, NoLock)
             /\ created' = created + 1
             /\ links' = Append(links, [new_payment |-> id, pc |-> "lock",
                                        called |-> "no", returned |-> ""])
     ELSE /\ links' = Append(links, [new_payment |-> 0, pc |-> "done",
                                     called |-> "no", returned |-> "None"])
          /\ UNCHANGED <<payments, priceLock, created>>
  /\ UNCHANGED <<numbers, now, pc, req, loc, resp, calls, delivered>>
  /\ UNCHANGED <<smsRows, smsLast, hashSeed, smsw, rentw, notes, priceCache, quotes, clock>>

\* payment_worker.py 36-37: set the price lock; when redis raises, lines 40-43
\* return None
LinkLock(k, stored) ==
  /\ k \in 1..Len(links)
  /\ links[k].pc = "lock"
  /\ LET id == links[k].new_payment
     IN IF stored
        THEN /\ priceLock' = [priceLock EXCEPT ![id] = Lock(payments[id].locked_price_ref)]
             /\ links' = [links EXCEPT ![k].pc = "gateway"]
        ELSE /\ links' = [links EXCEPT ![k].pc = "done", ![k].returned = "None"]
             /\ UNCHANGED priceLock
  /\ UNCHANGED <<payments, numbers, now, pc, req, loc, resp, calls, delivered, created>>
  /\ UNCHANGED <<smsRows, smsLast, hashSeed, smsw, rentw, notes, priceCache, quotes, clock>>

\* what paystack_service.initialize_transaction does: it returns the
\* authorization URL, or None (paystack_service.py 36-43, 67), or it raises
GatewayOutcomes == {"url", "none", "raise"}

\* The gateway call of the mutant below: a failed call marks the row failed
LinkGateway_MarkFailed(k, outcome) ==
  /\ k \in 1..Len(links)
  /\ links[k].pc = "gateway"
  /\ links' = [links EXCEPT ![k].pc = "done", ![k].called = outcome,
                            ![k].returned = IF outcome = "url" THEN "url" ELSE "None"]
  /\ payments' = IF outcome = "url" THEN payments
                 ELSE [payments EXCEPT ![links[k].new_payment].status = "failed"]
  /\ UNCHANGED <<numbers, priceLock, now, pc, req, loc, resp, calls, delivered, created>>
  /\ UNCHANGED <<smsRows, smsLast, hashSeed, smsw, rentw, notes, priceCache, quotes, clock>>

\* payment_worker.py 38-43: call the gateway and return what it returned; when the
\* call raises, log, roll the session back (nothing is pending in it) and return None
LinkGateway(k, outcome) ==
  /\ k \in 1..Len(links)
  /\ links[k].pc = "gateway"
  /\ links' = [links EXCEPT ![k].pc = "done", ![k].called = outcome,
                            ![k].returned = IF outcome = "url" THEN "url" ELSE "None"]
  /\ UNCHANGED <<payments, numbers, priceLock, now, pc, req, loc, resp, calls, delivered, created>>
  /\ UNCHANGED <<smsRows, smsLast, hashSeed, smsw, rentw, notes, priceCache, quotes, clock>>

(* --------------------- paystack_webhook_handler ------------------------ *)
\* run.py 23: a request arrives and the task reads its body
Deliver(h, request) ==
  /\ Free(h)
  /\ \A g \in Handlers : Free(g) => ~Before(g, h)
  /\ delivered < MaxDeliveries
  /\ delivered' = delivered + 1
  /\ req' = [req EXCEPT ![h] = request]
  /\ resp' = [resp EXCEPT ![h] = NoResponse]
  /\ loc' = [loc EXCEPT ![h] = NoLocals]
  /\ Goto(h, "read")
  /\ UNCHANGED <<payments, numbers, priceLock, now, calls, created>>
  /\ UNCHANGED wvars

\* A gate that hashes the parsed document in canonical form instead of the raw
\* bytes: it also accepts the digest of another serialisation of the document
SignatureMismatch_Canonical(request) ==
  /\ request.signature # HmacSha512(SecretKey, request.body)
  /\ request.signature # HmacSha512(SecretKey, Reformat(request.body))

\* run.py 25-28: signature != calculated_signature
SignatureMismatch(request) ==
  request.signature # HmacSha512(SecretKey, request.body)

\* run.py 25-40 and payment_worker.py 46-49: everything up to the first database await
Authenticate(h) ==
  /\ pc[h] = "read"
  /\ LET payload == JsonLoads(req[h].body)
     IN IF SignatureMismatch(req[h]) THEN Return(h, 401, "run.py:30")
        ELSE IF ~IsJson(req[h].body) THEN Return(h, 400, "run.py:53")
        ELSE IF payload.event # "charge.success"
        THEN Return(h, 400, "payment_worker.py:47")
        ELSE IF ~payload.data.present
        THEN Return(h, 500, "payment_worker.py:48")   \* None.get raises AttributeError
        ELSE IF payload.data.reference = <<>>
        THEN Return(h, 400, "payment_worker.py:49")
        ELSE /\ Goto(h, "lookup")
             /\ loc' = [loc EXCEPT ![h].reference = payload.data.reference,
                                   ![h].data_amount = payload.data.amount]
             /\ UNCHANGED resp
  /\ req' = [req EXCEPT ![h] = NoRequest]
  /\ UNCHANGED <<payments, numbers, priceLock, now, calls, delivered, created>>
  /\ UNCHANGED wvars

(* --------------------- process_webhook_event --------------------------- *)
\* process_webhook_event without line 54: a successful Payment is verified and
\* provisioned again
Lookup_NoShortCircuit(h) ==
  /\ pc[h] = "lookup"
  /\ LET id == PaymentByRef(loc[h].reference)
     IN IF id = 0 THEN Return(h, 400, "payment_worker.py:53")
        ELSE /\ loc' = [loc EXCEPT ![h] =
                          [@ EXCEPT !.payment = id,
                                    !.loaded = payments[id].status,
                                    !.amount = payments[id].amount_ngn,
                                    !.locked = payments[id].locked_price_ref]]
             /\ Goto(h, "verify")
             /\ UNCHANGED resp
  /\ UNCHANGED <<payments, numbers, priceLock, now, req, calls, delivered, created>>
  /\ UNCHANGED wvars

\* process_webhook_event answering True at line 53: an event for no Payment row is
\* acknowledged
Lookup_AckUnknown(h) ==
  /\ pc[h] = "lookup"
  /\ LET id == PaymentByRef(loc[h].reference)
     IN IF id = 0 THEN Return(h, 200, "payment_worker.py:53")
        ELSE IF payments[id].status = "successful"
        THEN Return(h, 200, "payment_worker.py:54")
        ELSE /\ loc' = [loc EXCEPT ![h] =
                          [@ EXCEPT !.payment = id,
                                    !.loaded = payments[id].status,
                                    !.amount = payments[id].amount_ngn,
                                    !.locked = payments[id].locked_price_ref]]
             /\ Goto(h, "verify")
             /\ UNCHANGED resp
  /\ UNCHANGED <<payments, numbers, priceLock, now, req, calls, delivered, created>>
  /\ UNCHANGED wvars

\* lines 51-54: load the Payment by reference into the session
Lookup(h) ==
  /\ pc[h] = "lookup"
  /\ LET id == PaymentByRef(loc[h].reference)
     IN IF id = 0 THEN Return(h, 400, "payment_worker.py:53")
        ELSE IF payments[id].status = "successful"
        THEN Return(h, 200, "payment_worker.py:54")
        ELSE /\ loc' = [loc EXCEPT ![h] =
                          [@ EXCEPT !.payment = id,
                                    !.loaded = payments[id].status,
                                    !.amount = payments[id].amount_ngn,
                                    !.locked = payments[id].locked_price_ref]]
             /\ Goto(h, "verify")
             /\ UNCHANGED resp
  /\ UNCHANGED <<payments, numbers, priceLock, now, req, calls, delivered, created>>
  /\ UNCHANGED wvars

\* line 56: the gateway answers the verification call; unpacking None raises
\* TypeError outside the try block, which run.py 54-56 turns into status 500
Verify(h, verified) ==
  /\ pc[h] = "verify"
  /\ calls' = [calls EXCEPT ![loc[h].payment].verify = @ + 1]
  /\ IF ~verified.ok
     THEN Return(h, 500, "payment_worker.py:56")
     ELSE /\ loc' = [loc EXCEPT ![h].verified = verified]
          /\ Goto(h, "commit_status")
          /\ UNCHANGED resp
  /\ UNCHANGED <<payments, numbers, priceLock, now, req, delivered, created>>
  /\ UNCHANGED wvars

\* Lines 57-66 without the comparison of line 61: any verified success settles
VerifiedStatus_NoAmountCheck(verified, amount_ngn) ==
  IF verified.status # "success" THEN "failed" ELSE "successful"

\* lines 57-66: what is assigned to payment.status for a verification result
VerifiedStatus(verified, amount_ngn) ==
  IF verified.status # "success" THEN "failed"
  ELSE IF verified.amount # amount_ngn THEN "disputed"
  ELSE "successful"

\* lines 57-67: payment.status is assigned and session.commit() writes it (the
\* session updates the column only when the value differs from the one it loaded)
CommitStatus(h) ==
  /\ pc[h] = "commit_status"
  /\ LET id == loc[h].payment
         status == VerifiedStatus(loc[h].verified, loc[h].amount)
     IN /\ payments' = IF status = loc[h].loaded THEN payments
                      ELSE [payments EXCEPT ![id].status = status]
        /\ IF status = "failed" THEN Return(h, 400, "payment_worker.py:60")
           ELSE IF status = "disputed" THEN Return(h, 400, "payment_worker.py:64")
           ELSE /\ Goto(h, IF IsRenewal(loc[h].locked) THEN "get_number" ELSE "countries")
                /\ loc' = [loc EXCEPT ![h].data_amount = 0]   \* data is not used again
                /\ UNCHANGED resp
  /\ UNCHANGED <<numbers, priceLock, now, req, calls, delivered, created>>
  /\ UNCHANGED wvars

\* lines 73-78: session.get(Number, number_to_renew_id)
GetNumberToRenew(h) ==
  /\ pc[h] = "get_number"
  /\ LET n == loc[h].locked[2]
     IN IF n \notin 1..Len(numbers) THEN Return(h, 400, "payment_worker.py:78")
        ELSE /\ loc' = [loc EXCEPT ![h] =
                          [@ EXCEPT !.number = n,
                                    !.expires_at = numbers[n].expires_at,
                                    !.notice = numbers[n].renewal_notice_sent]]
             /\ Goto(h, "countries")
             /\ UNCHANGED resp
  /\ UNCHANGED <<payments, numbers, priceLock, now, req, calls, delivered, created>>
  /\ UNCHANGED wvars

\* lines 80-81 and 106-108: pva_service.get_countries and the country-name lookup.
\* outcome: the list holds the country, does not hold it, or the call raises
GetCountries(h, outcome) ==
  /\ pc[h] = "countries"
  /\ IF outcome = "raise" THEN Return(h, 400, "payment_worker.py:144")
     ELSE IF IsRenewal(loc[h].locked)
     THEN /\ loc' = [loc EXCEPT ![h].country_name =
                        IF outcome = "found" THEN "Nigeria" ELSE None]
          /\ Goto(h, "renew")
          /\ UNCHANGED resp
     ELSE IF outcome = "missing" THEN Return(h, 400, "payment_worker.py:108")
     ELSE /\ loc' = [loc EXCEPT ![h].country_name = "Nigeria"]
          /\ Goto(h, "buy")
          /\ UNCHANGED resp
  /\ UNCHANGED <<payments, numbers, priceLock, now, req, calls, delivered, created>>
  /\ UNCHANGED wvars

\* lines 83-98: pva_service.renew_rental_number. outcome: the service name is not
\* resolved (no request goes to the provider), the provider refuses, or it renews
RenewRentalNumber(h, outcome) ==
  /\ pc[h] = "renew"
  /\ calls' = [calls EXCEPT ![loc[h].payment].renew =
                 IF outcome = "no_service" THEN @ ELSE @ + 1]
  /\ IF outcome = "ok"
     THEN Goto(h, "commit_renewal") /\ UNCHANGED loc
     ELSE /\ loc' = [loc EXCEPT ![h].note = "renew_error"]
          /\ Goto(h, "notify")
  /\ UNCHANGED <<payments, numbers, priceLock, now, req, resp, delivered, created>>
  /\ UNCHANGED wvars

\* A renewal that also puts the number back in service
CommitRenewal_Reactivate(h) ==
  /\ pc[h] = "commit_renewal"
  /\ LET n == loc[h].number
         new_expiry == loc[h].expires_at + RentalDelta
     IN numbers' = [numbers EXCEPT ![n].expires_at = new_expiry,
                                   ![n].status = "active",
                                   ![n].renewal_notice_sent =
                                      IF loc[h].notice THEN FALSE ELSE @]
  /\ calls' = [calls EXCEPT ![loc[h].payment].extend = @ + 1]
  /\ loc' = [loc EXCEPT ![h].note = "renewed"]
  /\ Goto(h, "notify")
  /\ UNCHANGED <<payments, priceLock, now, req, resp, delivered, created>>
  /\ UNCHANGED wvars

\* lines 90-93: the session writes the expiry computed from the row it loaded, and
\* the notice flag when it loaded it set
CommitRenewal(h) ==
  /\ pc[h] = "commit_renewal"
  /\ LET n == loc[h].number
         new_expiry == loc[h].expires_at + RentalDelta
     IN numbers' = [numbers EXCEPT ![n].expires_at = new_expiry,
                                   ![n].renewal_notice_sent =
                                      IF loc[h].notice THEN FALSE ELSE @]
  /\ calls' = [calls EXCEPT ![loc[h].payment].extend = @ + 1]
  /\ loc' = [loc EXCEPT ![h].note = "renewed"]
  /\ Goto(h, "notify")
  /\ UNCHANGED <<payments, priceLock, now, req, resp, delivered, created>>
  /\ UNCHANGED wvars

\* lines 112-140: pva_service.buy_number. outcome: the service name is not resolved
\* (no request goes to the provider), the provider gives no number, or it gives
\* phone_number
BuyNumber(h, outcome, phone_number) ==
  /\ pc[h] = "buy"
  /\ calls' = [calls EXCEPT ![loc[h].payment].buy =
                 IF outcome = "no_service" THEN @ ELSE @ + 1]
  /\ IF outcome = "ok"
     THEN /\ loc' = [loc EXCEPT ![h].info = phone_number]
          /\ Goto(h, "commit_number")
     ELSE /\ loc' = [loc EXCEPT ![h].note = "buy_error"]
          /\ Goto(h, "notify")
  /\ UNCHANGED <<payments, numbers, priceLock, now, req, resp, delivered, created>>
  /\ UNCHANGED wvars

\* models/number.py: payment_id and pva_activation_id are unique
NumberInsertAllowed(row) ==
  \A i \in 1..Len(numbers) :
     /\ numbers[i].payment_id # row.payment_id
     /\ numbers[i].pva_activation_id # row.pva_activation_id

\* lines 117-130: insert the Number row; an IntegrityError is caught at line 142
CommitNumber(h) ==
  /\ pc[h] = "commit_number"
  /\ LET is_rent == loc[h].locked[4] = "rent"
         expiry_delta == IF is_rent THEN RentalDelta ELSE DEFAULT_TEMP_DURATION_MINUTES
         new_number == [phone_number |-> loc[h].info,
                        pva_activation_id |-> loc[h].info,
                        service_code |-> loc[h].locked[3],
                        country_code |-> loc[h].locked[2],
                        status |-> "active",
                        is_rent |-> is_rent,
                        expires_at |-> now + expiry_delta,
                        renewal_notice_sent |-> FALSE,
                        payment_id |-> loc[h].payment]
     IN IF NumberInsertAllowed(new_number)
        THEN /\ numbers' = Append(numbers, new_number)
             /\ loc' = [loc EXCEPT ![h].note = "issued"]
             /\ Goto(h, "notify")
             /\ UNCHANGED resp
        ELSE /\ Return(h, 400, "payment_worker.py:144")
             /\ UNCHANGED numbers
  /\ UNCHANGED <<payments, priceLock, now, req, calls, delivered, created>>
  /\ UNCHANGED wvars

\* An except block at line 142 that takes the payment back when something raises
SendMessage_Rollback(h, delivered_ok) ==
  /\ pc[h] = "notify"
  /\ IF delivered_ok
     THEN /\ calls' = [calls EXCEPT ![loc[h].payment].sent = @ + 1]
          /\ Return(h, 200, "payment_worker.py:145")
          /\ UNCHANGED payments
     ELSE /\ Return(h, 400, "payment_worker.py:144")
          /\ payments' = [payments EXCEPT ![loc[h].payment].status = "failed"]
          /\ UNCHANGED calls
  /\ UNCHANGED <<numbers, priceLock, now, req, delivered, created>>
  /\ UNCHANGED wvars

\* lines 95, 98, 133, 140: bot.send_message; it may raise (caught at line 142)
SendMessage(h, delivered_ok) ==
  /\ pc[h] = "notify"
  /\ IF delivered_ok
     THEN /\ calls' = [calls EXCEPT ![loc[h].payment].sent = @ + 1]
          /\ Return(h, 200, "payment_worker.py:145")
     ELSE /\ Return(h, 400, "payment_worker.py:144")
          /\ UNCHANGED calls
  /\ UNCHANGED <<payments, numbers, priceLock, now, req, delivered, created>>
  /\ UNCHANGED wvars

(* --------------------------- specifications ---------------------------- *)
Step(h) ==
  \/ Authenticate(h)
  \/ Lookup(h)
  \/ \E v \in VerifyResults : Verify(h, v)
  \/ CommitStatus(h)
  \/ GetNumberToRenew(h)
  \/ \E o \in {"found", "missing", "raise"} : GetCountries(h, o)
  \/ \E o \in {"ok", "fail", "no_service"} : RenewRentalNumber(h, o)
  \/ CommitRenewal(h)
  \/ \E o \in {"ok", "fail", "no_service"}, n \in PhoneNumbers : BuyNumber(h, o, n)
  \/ CommitNumber(h)
  \/ \E ok \in BOOLEAN : SendMessage(h, ok)

\* Requests that pass the signature check and parse to a charge.success event with
\* a data object: the ones process_webhook_event works on
SettlementRequests ==
  {r \in Requests : /\ r.body.fmt = "compact"
                    /\ r.signature = HmacSha512(SecretKey, r.body)
                    /\ r.body.content.json
                    /\ r.body.content.event = "charge.success"
                    /\ r.body.content.data.present}

\* Webhook tasks run concurrently, one per settlement request
Next ==
  \/ \E p \in Prices, r \in PriceRefs : create_payment_link(p, r)
  \/ \E h \in Handlers, request \in SettlementRequests : Deliver(h, request)
  \/ \E h \in Handlers : Step(h)

Spec == Init /\ [][Next]_vars

\* Requests as anyone may send them, forged ones included; the body states the
\* amount of the price when it states one
GateRequests ==
  {r \in Requests : r.body.content.data.present
                       => r.body.content.data.amount \in {p * 100 : p \in Prices}}

\* Any request whatever, one request at a time
NextGate ==
  \/ \E p \in Prices, r \in PriceRefs : create_payment_link(p, r)
  \/ \E h \in Handlers, request \in GateRequests :
        (\A g \in Handlers : Free(g)) /\ Deliver(h, request)
  \/ \E h \in Handlers : Step(h)

SpecGate == Init /\ [][NextGate]_vars

(* ------------------------------ clock ---------------------------------- *)
\* Wall-clock time passes by minutes minutes
Tick(minutes) ==
  /\ clock.ticks < MaxTicks
  /\ now' = now + minutes
  /\ clock' = [clock EXCEPT !.ticks = @ + 1]
  /\ UNCHANGED <<payments, numbers, priceLock, pc, req, loc, resp, calls, delivered, created>>
  /\ UNCHANGED <<smsRows, smsLast, hashSeed, smsw, rentw, notes, priceCache, quotes, links>>

\* The gateway's charge.success events: it sends them for transactions it has
\* initialised, with the amount of the transaction
LinkRequests ==
  {r \in SettlementRequests :
     \E k \in 1..Len(links) :
        /\ links[k].called = "url"
        /\ r.body.content.data.reference = TransactionRef(links[k].new_payment)
        /\ r.body.content.data.amount = payments[links[k].new_payment].amount_ngn}

\* A purchase dialog asks for a payment link, await by await, while the webhook of
\* the gateway is served and the lifetime of a price lock passes
NextLink ==
  \/ \E p \in Prices, r \in PriceRefs, committed \in BOOLEAN : LinkCommit(p, r, committed)
  \/ \E k \in 1..MaxPayments, stored \in BOOLEAN : LinkLock(k, stored)
  \/ \E k \in 1..MaxPayments, outcome \in GatewayOutcomes : LinkGateway(k, outcome)
  \/ \E request \in LinkRequests : Deliver("h1", request)
  \/ Step("h1")
  \/ Tick(PriceLockMinutes)

SpecLink == Init /\ [][NextLink]_vars

\* seeds of hash(str) a process may run with (PYTHONHASHSEED unset: random)
HashSeeds == {0, 1}

\* The process dies and is started again: every task and session is gone, the
\* database and redis are kept, str hashes are seeded anew
Restart(seed) ==
  /\ clock.restarts < MaxRestarts
  /\ clock' = [clock EXCEPT !.restarts = @ + 1]
  /\ hashSeed' = seed
  /\ smsw' = SmsAsleep
  /\ rentw' = RentalAsleep
  /\ pc' = [h \in Handlers |-> "idle"]
  /\ req' = [h \in Handlers |-> NoRequest]
  /\ loc' = [h \in Handlers |-> NoLocals]
  /\ resp' = [h \in Handlers |-> NoResponse]
  /\ UNCHANGED <<payments, numbers, priceLock, now, calls, delivered, created>>
  /\ links' = [k \in 1..Len(links) |->
                 IF links[k].pc = "done" THEN links[k]
                 ELSE [links[k] EXCEPT !.pc = "done", !.returned = "cancelled"]]
  /\ UNCHANGED <<smsRows, smsLast, notes, priceCache, quotes>>

(* --------------------------- sms_polling_worker ------------------------ *)
\* the variables of the webhook side other than the numbers table
hvarsButNumbers == <<payments, priceLock, now, pc, req, loc, resp, calls, delivered, created>>

Min(S) == CHOOSE x \in S : \A y \in S : x <= y

\* An exception that leaves sms_polling_worker: the task is over
SmsAbort_Terminate == smsw' = [SmsAsleep EXCEPT !.pc = "dead"]

\* lines 111-114: an exception ends the sweep; the session is closed uncommitted
SmsAbort == smsw' = SmsAsleep

\* lines 29-39: a sweep starts and loads the active, unexpired numbers
SmsSelectActive ==
  /\ smsw.pc = "sleep"
  /\ clock.sms < MaxSweeps
  /\ clock' = [clock EXCEPT !.sms = @ + 1]
  /\ smsw' = [SmsAsleep EXCEPT
                !.pc = "poll",
                !.now_utc = now,
                !.queue = {n \in 1..Len(numbers) :
                             numbers[n].status = "active" /\ numbers[n].expires_at > now}]
  /\ UNCHANGED <<numbers, smsRows, smsLast, hashSeed, rentw, notes, priceCache, quotes, links>>
  /\ UNCHANGED hvarsButNumbers

\* pva_service.py 117: the endpoint get_sms asks, by its argument is_rent
get_sms_endpoint(is_rent) == IF is_rent THEN "load_rent_code.php" ELSE "get_sms.php"

\* sms_worker.py 48 and 62: the is_rent argument the worker passes when it polls
\* number n
PollIsRent(n) == FALSE

\* What lines 49-63 get for a number: no country name, or the dict of get_sms
\* (status ERROR when the service name is not resolved, WAITING, or OK with a text)
SmsOutcomes ==
  [country : {FALSE}, status : {"WAITING"}, code : {NoText}]
    \cup [country : {TRUE}, status : {"WAITING", "ERROR"}, code : {NoText}]
    \cup [country : {TRUE}, status : {"OK"}, code : Texts]

\* Lines 65-70 without lines 68-69: a terminal status is logged and the number
\* is left as it is
SmsPoll_NoDeactivate(outcome) ==
  /\ smsw.pc = "poll"
  /\ smsw.queue # {}
  /\ LET n == Min(smsw.queue)
         pva_sms_id == PvaSmsId(numbers[n].pva_activation_id, hashSeed, outcome.code)
         continue == smsw' = [smsw EXCEPT !.queue = @ \ {n}]
     IN IF ~outcome.country \/ outcome.status # "OK"
        THEN continue
        ELSE IF smsLast[n] = pva_sms_id
        THEN continue
        ELSE smsw' = [smsw EXCEPT !.pc = "notify", !.number = n,
                                  !.sms_text = outcome.code]
  /\ notes' = IF outcome.country /\ outcome.status \notin {"OK", "WAITING"}
              THEN [notes EXCEPT ![Min(smsw.queue)].ended = @ + 1]
              ELSE notes
  /\ UNCHANGED <<numbers, smsRows, smsLast, hashSeed, rentw, priceCache, quotes, clock, links>>
  /\ UNCHANGED hvarsButNumbers

\* lines 44-80: the next number of the sweep is polled.  A status other than OK and
\* WAITING deactivates the number at once (commit of line 69); a text whose id is
\* the one marked in redis is skipped
SmsPoll(outcome) ==
  /\ smsw.pc = "poll"
  /\ smsw.queue # {}
  /\ LET n == Min(smsw.queue)
         pva_sms_id == PvaSmsId(numbers[n].pva_activation_id, hashSeed, outcome.code)
         continue == smsw' = [smsw EXCEPT !.queue = @ \ {n}]
     IN IF ~outcome.country \/ outcome.status = "WAITING"
        THEN continue /\ UNCHANGED numbers
        ELSE IF outcome.status # "OK"
        THEN /\ numbers' = [numbers EXCEPT ![n].status = "expired"]
             /\ continue
        ELSE IF smsLast[n] = pva_sms_id
        THEN continue /\ UNCHANGED numbers
        ELSE /\ smsw' = [smsw EXCEPT !.pc = "notify", !.number = n,
                                     !.sms_text = outcome.code]
             /\ UNCHANGED numbers
  /\ notes' = IF outcome.country /\ outcome.status \notin {"OK", "WAITING"}
              THEN [notes EXCEPT ![Min(smsw.queue)].ended = @ + 1]
              ELSE notes
  /\ UNCHANGED <<smsRows, smsLast, hashSeed, rentw, priceCache, quotes, clock, links>>
  /\ UNCHANGED hvarsButNumbers

\* A worker that sets the marker as soon as the user is told, before the commit
SmsNotify_MarkFirst(delivered_ok) ==
  /\ smsw.pc = "notify"
  /\ IF delivered_ok
     THEN /\ notes' = [notes EXCEPT ![smsw.number].sms[smsw.sms_text] = @ + 1]
          /\ smsw' = [smsw EXCEPT !.pc = "persist"]
          /\ smsLast' = [smsLast EXCEPT ![smsw.number] =
                           PvaSmsId(numbers[smsw.number].pva_activation_id, hashSeed,
                                    smsw.sms_text)]
     ELSE SmsAbort /\ UNCHANGED <<notes, smsLast>>
  /\ UNCHANGED <<numbers, smsRows, hashSeed, rentw, priceCache, quotes, clock, links>>
  /\ UNCHANGED hvarsButNumbers

\* lines 85-96: the Sms row is added to the session and the user is sent the text;
\* send_message may raise
SmsNotify(delivered_ok) ==
  /\ smsw.pc = "notify"
  /\ IF delivered_ok
     THEN /\ notes' = [notes EXCEPT ![smsw.number].sms[smsw.sms_text] = @ + 1]
          /\ smsw' = [smsw EXCEPT !.pc = "persist"]
     ELSE SmsAbort /\ UNCHANGED notes
  /\ UNCHANGED <<numbers, smsRows, smsLast, hashSeed, rentw, priceCache, quotes, clock, links>>
  /\ UNCHANGED hvarsButNumbers

\* models/sms.py 28-32: pva_sms_id is unique
SmsInsertAllowed(row) ==
  \A i \in 1..Len(smsRows) : smsRows[i].pva_sms_id # row.pva_sms_id

\* line 98: session.commit() inserts the Sms row; an IntegrityError ends the sweep
SmsPersist ==
  /\ smsw.pc = "persist"
  /\ LET n == smsw.number
         new_sms == [number_id |-> n,
                     pva_sms_id |-> PvaSmsId(numbers[n].pva_activation_id, hashSeed,
                                             smsw.sms_text),
                     full_text |-> smsw.sms_text]
     IN IF SmsInsertAllowed(new_sms)
        THEN /\ smsRows' = Append(smsRows, new_sms)
             /\ smsw' = [smsw EXCEPT !.pc = "mark"]
        ELSE SmsAbort /\ UNCHANGED smsRows
  /\ UNCHANGED <<numbers, smsLast, hashSeed, rentw, notes, priceCache, quotes, clock, links>>
  /\ UNCHANGED hvarsButNumbers

\* line 99: redis_client.set(redis_key, pva_sms_id); a redis error ends the sweep
SmsMark(stored) ==
  /\ smsw.pc = "mark"
  /\ LET n == smsw.number
     IN IF stored
        THEN /\ smsLast' = [smsLast EXCEPT ![n] =
                              PvaSmsId(numbers[n].pva_activation_id, hashSeed,
                                       smsw.sms_text)]
             /\ smsw' = [smsw EXCEPT !.pc = "poll", !.queue = @ \ {n},
                                     !.number = 0, !.sms_text = NoText]
        ELSE SmsAbort /\ UNCHANGED smsLast
  /\ UNCHANGED <<numbers, smsRows, hashSeed, rentw, notes, priceCache, quotes, clock, links>>
  /\ UNCHANGED hvarsButNumbers

\* lines 103-104: after the last number, select the active numbers whose expiry
\* is not after the time the sweep started
SmsSelectExpired ==
  /\ smsw.pc = "poll"
  /\ smsw.queue = {}
  /\ smsw' = [smsw EXCEPT
                !.pc = "expire",
                !.expired = {n \in 1..Len(numbers) :
                               numbers[n].status = "active"
                                 /\ numbers[n].expires_at <= smsw.now_utc}]
  /\ UNCHANGED <<numbers, smsRows, smsLast, hashSeed, rentw, notes, priceCache, quotes, clock, links>>
  /\ UNCHANGED hvarsButNumbers

\* An expiry pass that also closes the Payment of each Number it expires
SmsCommitExpired_ClosePayment ==
  /\ smsw.pc = "expire"
  /\ numbers' = [n \in 1..Len(numbers) |->
                   IF n \in smsw.expired THEN [numbers[n] EXCEPT !.status = "expired"]
                   ELSE numbers[n]]
  /\ payments' = [p \in 1..Len(payments) |->
                    IF \E n \in smsw.expired : numbers[n].payment_id = p
                    THEN [payments[p] EXCEPT !.status = "expired"]
                    ELSE payments[p]]
  /\ smsw' = SmsAsleep
  /\ UNCHANGED <<smsRows, smsLast, hashSeed, rentw, notes, priceCache, quotes, clock, links>>
  /\ UNCHANGED <<priceLock, now, pc, req, loc, resp, calls, delivered, created>>

\* lines 105-114: the selected rows get status expired, the commit writes that
\* column, and the worker sleeps
SmsCommitExpired ==
  /\ smsw.pc = "expire"
  /\ numbers' = [n \in 1..Len(numbers) |->
                   IF n \in smsw.expired THEN [numbers[n] EXCEPT !.status = "expired"]
                   ELSE numbers[n]]
  /\ smsw' = SmsAsleep
  /\ UNCHANGED <<smsRows, smsLast, hashSeed, rentw, notes, priceCache, quotes, clock, links>>
  /\ UNCHANGED hvarsButNumbers

\* One step of the SMS worker
SmsStep ==
  \/ SmsSelectActive
  \/ \E o \in SmsOutcomes : SmsPoll(o)
  \/ \E ok \in BOOLEAN : SmsNotify(ok)
  \/ SmsPersist
  \/ \E ok \in BOOLEAN : SmsMark(ok)
  \/ SmsSelectExpired
  \/ SmsCommitExpired

\* A database left by an earlier run: one temporary number bought at time 0 with
\* Payment 1
SettledTempPayment ==
  [amount_ngn |-> 1600 * 100, status |-> "successful",
   paystack_ref |-> TransactionRef(1),
   locked_price_ref |-> <<"pricing", "1", "5", "temp">>]
SettledTempNumber ==
  [phone_number |-> "+2348000000002", pva_activation_id |-> "+2348000000002",
   service_code |-> "5", country_code |-> "1", status |-> "active",
   is_rent |-> FALSE, expires_at |-> DEFAULT_TEMP_DURATION_MINUTES,
   renewal_notice_sent |-> FALSE, payment_id |-> 1]

InitSms ==
  /\ payments = <<SettledTempPayment>>
  /\ numbers = <<SettledTempNumber>>
  /\ priceLock = <<NoLock>>
  /\ now = 0
  /\ pc = [h \in Handlers |-> "idle"]
  /\ req = [h \in Handlers |-> NoRequest]
  /\ loc = [h \in Handlers |-> NoLocals]
  /\ resp = [h \in Handlers |-> NoResponse]
  /\ calls = [p \in PaymentIds |-> NoCalls]
  /\ delivered = 0
  /\ created = 0
  /\ InitWorkers

\* The SMS worker alone, with the clock and restarts of the process
NextSms ==
  \/ SmsStep
  \/ Tick(DEFAULT_TEMP_DURATION_MINUTES)
  \/ \E seed \in HashSeeds : Restart(seed)

SpecSms == InitSms /\ [][NextSms]_vars

\* The SMS worker while nothing fails: every send_message, commit and redis call
\* goes through and the process is not restarted
NextSmsQuiet ==
  \/ SmsSelectActive
  \/ \E o \in SmsOutcomes : SmsPoll(o)
  \/ SmsNotify(TRUE)
  \/ SmsPersist
  \/ SmsMark(TRUE)
  \/ SmsSelectExpired
  \/ SmsCommitExpired
  \/ Tick(DEFAULT_TEMP_DURATION_MINUTES)

SpecSmsQuiet == InitSms /\ [][NextSmsQuiet]_vars

(* --------------------------- rental_status_worker ---------------------- *)
\* lines 84-85: an exception ends the sweep; the session is closed uncommitted
\* and what it had assigned is dropped
RentalAbort == rentw' = RentalAsleep

\* lines 21-36: a sweep starts and loads the active rentals inside the warning
\* window that have no notice recorded
RentalSelectWarning ==
  /\ rentw.pc = "sleep"
  /\ clock.rental < MaxSweeps
  /\ clock' = [clock EXCEPT !.rental = @ + 1]
  /\ rentw' = [RentalAsleep EXCEPT
                 !.pc = "warn",
                 !.now_utc = now,
                 !.queue = {n \in 1..Len(numbers) :
                              /\ numbers[n].is_rent
                              /\ numbers[n].status = "active"
                              /\ numbers[n].expires_at <= now + WarningDelta
                              /\ ~numbers[n].renewal_notice_sent}]
  /\ UNCHANGED <<numbers, smsRows, smsLast, hashSeed, smsw, notes, priceCache, quotes, links>>
  /\ UNCHANGED hvarsButNumbers

\* What line 42 gets from get_final_price: a price, nothing (price_ngn = 0), or
\* an exception of the pricing store or the provider
GetFinalPriceOutcomes ==
  [raises : {FALSE}, price_ngn : Prices \cup {0}] \cup {[raises |-> TRUE, price_ngn |-> 0]}

\* lines 38-48 and 60-61: the renewal price of the next number is asked for;
\* without a price the number is skipped
RentalQuote(outcome) ==
  /\ rentw.pc = "warn"
  /\ rentw.queue # {}
  /\ LET n == Min(rentw.queue)
     IN IF outcome.raises THEN RentalAbort
        ELSE IF outcome.price_ngn = 0
        THEN rentw' = [rentw EXCEPT !.queue = @ \ {n}]
        ELSE rentw' = [rentw EXCEPT !.pc = "send", !.number = n,
                                    !.price_ngn = outcome.price_ngn]
  /\ UNCHANGED <<numbers, smsRows, smsLast, hashSeed, smsw, notes, priceCache, quotes, clock, links>>
  /\ UNCHANGED hvarsButNumbers

\* A warning pass that assigns the flag whether or not the notice went out
RentalWarn_AlwaysFlag(delivered_ok) ==
  /\ rentw.pc = "send"
  /\ LET n == rentw.number
     IN /\ rentw' = [rentw EXCEPT !.pc = "warn", !.queue = @ \ {n}, !.number = 0,
                                  !.price_ngn = 0, !.noticed = @ \cup {n}]
        /\ notes' = IF delivered_ok THEN [notes EXCEPT ![n].renewal = @ + 1] ELSE notes
  /\ UNCHANGED <<numbers, smsRows, smsLast, hashSeed, smsw, priceCache, quotes, clock, links>>
  /\ UNCHANGED hvarsButNumbers

\* lines 49-59: the notice is sent and the flag is assigned in the session; a
\* send_message that raises is logged and the flag is left alone
RentalWarn(delivered_ok) ==
  /\ rentw.pc = "send"
  /\ LET n == rentw.number
     IN /\ rentw' = [rentw EXCEPT !.pc = "warn", !.queue = @ \ {n}, !.number = 0,
                                  !.price_ngn = 0,
                                  !.noticed = IF delivered_ok THEN @ \cup {n} ELSE @]
        /\ notes' = IF delivered_ok THEN [notes EXCEPT ![n].renewal = @ + 1] ELSE notes
  /\ UNCHANGED <<numbers, smsRows, smsLast, hashSeed, smsw, priceCache, quotes, clock, links>>
  /\ UNCHANGED hvarsButNumbers

\* lines 64-73: after the last warning, select the active rentals whose expiry is
\* not after the time the sweep started; a database error ends the sweep
RentalSelectExpired(executed) ==
  /\ rentw.pc = "warn"
  /\ rentw.queue = {}
  /\ IF executed
     THEN rentw' = [rentw EXCEPT
                      !.pc = "expire",
                      !.expired = {n \in 1..Len(numbers) :
                                     /\ numbers[n].is_rent
                                     /\ numbers[n].status = "active"
                                     /\ numbers[n].expires_at <= rentw.now_utc}]
     ELSE RentalAbort
  /\ UNCHANGED <<numbers, smsRows, smsLast, hashSeed, smsw, notes, priceCache, quotes, clock, links>>
  /\ UNCHANGED hvarsButNumbers

\* lines 74-80: the next selected row is assigned status expired in the session
\* and its user is told; a send_message that raises is logged
RentalExpireNotify(delivered_ok) ==
  /\ rentw.pc = "expire"
  /\ rentw.expired # {}
  /\ LET n == Min(rentw.expired)
     IN /\ rentw' = [rentw EXCEPT !.expired = @ \ {n}, !.flipped = @ \cup {n}]
        /\ notes' = IF delivered_ok THEN [notes EXCEPT ![n].expired = @ + 1] ELSE notes
  /\ UNCHANGED <<numbers, smsRows, smsLast, hashSeed, smsw, priceCache, quotes, clock, links>>
  /\ UNCHANGED hvarsButNumbers

\* lines 82-87: the one commit of the sweep writes the columns the session
\* assigned (the flags of the noticed rows, the status of the expired rows), and
\* the worker sleeps; when the commit raises nothing is written
RentalCommit(committed) ==
  /\ rentw.pc = "expire"
  /\ rentw.expired = {}
  /\ IF committed
     THEN numbers' = [n \in 1..Len(numbers) |->
                        [numbers[n] EXCEPT
                           !.renewal_notice_sent = IF n \in rentw.noticed THEN TRUE ELSE @,
                           !.status = IF n \in rentw.flipped THEN "expired" ELSE @]]
     ELSE UNCHANGED numbers
  /\ rentw' = RentalAsleep
  /\ UNCHANGED <<smsRows, smsLast, hashSeed, smsw, notes, priceCache, quotes, clock, links>>
  /\ UNCHANGED hvarsButNumbers

\* The renewal link the user of Number 1 asked for (router.py cq_renew_rental):
\* the pending row create_payment_link inserted
PendingRenewal ==
  [amount_ngn |-> 1600 * 100, status |-> "pending",
   paystack_ref |-> TransactionRef(2),
   locked_price_ref |-> <<"renewal", 1>>]

\* A database left by an earlier run: the rental of Payment 1, three days from
\* its expiry, and an unpaid renewal link for it
InitRental ==
  /\ payments = <<SettledPayment, PendingRenewal>>
  /\ numbers = <<SettledNumber>>
  /\ priceLock = <<NoLock, [value |-> PendingRenewal.locked_price_ref,
                             until |-> PriceLockMinutes]>>
  /\ now = 0
  /\ pc = [h \in Handlers |-> "idle"]
  /\ req = [h \in Handlers |-> NoRequest]
  /\ loc = [h \in Handlers |-> NoLocals]
  /\ resp = [h \in Handlers |-> NoResponse]
  /\ calls = [p \in PaymentIds |-> NoCalls]
  /\ delivered = 0
  /\ created = 0
  /\ InitWorkers

\* The gateway's charge.success events for the renewal link
RenewalRequests ==
  {r \in SettlementRequests :
     /\ r.body.content.data.reference = PendingRenewal.paystack_ref
     /\ r.body.content.data.amount = PendingRenewal.amount_ngn}

\* The gateway confirms the charge of the renewal link
RenewalVerified == [ok |-> TRUE, status |-> "success", amount |-> PendingRenewal.amount_ngn]

\* One step of a webhook task working on a paid renewal
RenewalStep(h) ==
  \/ Authenticate(h)
  \/ Lookup(h)
  \/ Verify(h, RenewalVerified)
  \/ CommitStatus(h)
  \/ GetNumberToRenew(h)
  \/ \E o \in {"found", "missing"} : GetCountries(h, o)
  \/ \E o \in {"ok", "fail"} : RenewRentalNumber(h, o)
  \/ CommitRenewal(h)
  \/ \E ok \in BOOLEAN : SendMessage(h, ok)

\* What get_sms answers while no message has arrived
SmsWaiting == [country |-> TRUE, status |-> "WAITING", code |-> NoText]

\* The rental worker, the SMS worker while no message arrives (its expiry pass
\* included), the webhook deliveries of a paid renewal one after the other, and
\* the clock; the two workers start MaxSweeps sweeps in all
NextRental ==
  \/ clock.sms + clock.rental < MaxSweeps /\ RentalSelectWarning
  \/ \E o \in GetFinalPriceOutcomes : RentalQuote(o)
  \/ \E ok \in BOOLEAN : RentalWarn(ok)
  \/ \E ok \in BOOLEAN : RentalSelectExpired(ok)
  \/ \E ok \in BOOLEAN : RentalExpireNotify(ok)
  \/ \E ok \in BOOLEAN : RentalCommit(ok)
  \/ clock.sms + clock.rental < MaxSweeps /\ SmsSelectActive
  \/ SmsPoll(SmsWaiting)
  \/ SmsSelectExpired
  \/ SmsCommitExpired
  \/ \E request \in RenewalRequests : Deliver("h1", request)
  \/ RenewalStep("h1")
  \/ Tick(RentalDelta)

SpecRental == InitRental /\ [][NextRental]_vars

(* --------------------------- the worker loops -------------------------- *)
\* sms_worker.py 38-63, 77, 104, 109: an await of the store, of the provider or of
\* redis raises inside the sweep; lines 111-114 log it and the worker sleeps
SmsRaise ==
  /\ smsw.pc \in {"poll", "expire"}
  /\ SmsAbort
  /\ UNCHANGED <<numbers, smsRows, smsLast, hashSeed, rentw, notes, priceCache, quotes, clock, links>>
  /\ UNCHANGED hvarsButNumbers

\* messages the provider reports while the loops are watched
LoopOutcomes == {o \in SmsOutcomes : o.code \in {NoText, "A"}}

\* One step of the SMS worker, which starts MaxLoops sweeps
SmsLoopStep ==
  \/ clock.sms < MaxLoops /\ SmsSelectActive
  \/ \E o \in LoopOutcomes : SmsPoll(o)
  \/ \E ok \in BOOLEAN : SmsNotify(ok)
  \/ SmsPersist
  \/ \E ok \in BOOLEAN : SmsMark(ok)
  \/ SmsSelectExpired
  \/ SmsCommitExpired
  \/ SmsRaise

\* One step of the rental worker, which starts MaxLoops sweeps
RentalLoopStep ==
  \/ clock.rental < MaxLoops /\ RentalSelectWarning
  \/ \E o \in GetFinalPriceOutcomes : RentalQuote(o)
  \/ \E ok \in BOOLEAN : RentalWarn(ok)
  \/ \E ok \in BOOLEAN : RentalSelectExpired(ok)
  \/ \E ok \in BOOLEAN : RentalExpireNotify(ok)
  \/ \E ok \in BOOLEAN : RentalCommit(ok)

\* The two workers on the rental of InitRental, every await of theirs free to
\* fail, while the rental runs out
NextLoop ==
  \/ SmsLoopStep
  \/ RentalLoopStep
  \/ Tick(RentalDelta)

\* The event loop resumes a task whose await has completed or raised, and
\* asyncio.sleep returns (sms_worker.py 114, rental_worker.py 87): a worker that
\* can take a step takes one
SpecLoop ==
  /\ InitRental
  /\ [][NextLoop]_vars
  /\ WF_vars(SmsLoopStep)
  /\ WF_vars(RentalLoopStep)

(* ------------------------- get_final_ngn_price ------------------------- *)
\* str(n) of a non-negative int, as redis stores it: its decimal digits
RECURSIVE Str(_)
Str(n) == IF n < 10 THEN <<n>> ELSE Append(Str(n \div 10), n % 10)

\* int(s) of a string of decimal digits
RECURSIVE IntOf(_)
IntOf(s) == IF Len(s) = 0 THEN 0 ELSE IntOf(SubSeq(s, 1, Len(s) - 1)) * 10 + s[Len(s)]

\* math.ceil(a / b) for positive b
Ceil(a, b) == (a + b - 1) \div b

\* A rate that is used as the source reports it
fx_rate_to_use_Live(live_fx_rate) == live_fx_rate

\* pricing_worker.py 66: min(live_fx_rate, Decimal(settings.FX_RATE_CAP)), in hundredths
fx_rate_to_use(live_fx_rate) ==
  IF live_fx_rate <= FX_RATE_CAP * 100 THEN live_fx_rate ELSE FX_RATE_CAP * 100

\* A price rounded to the nearest 10 NGN instead of up
_calculate_final_ngn_Nearest(pva_usd_cents, fx_rate) ==
  ((pva_usd_cents * (100 + PRICE_MARKUP_PERCENTAGE) * fx_rate + 5000000) \div 10000000) * 10

\* A price without the markup
_calculate_final_ngn_NoMarkup(pva_usd_cents, fx_rate) ==
  Ceil(pva_usd_cents * 100 * fx_rate, 10000000) * 10

\* pricing_worker.py 22-39: markup, conversion, rounding up to the next 10 NGN.
\* The cost is in cents and the rate in hundredths: the product is in 1e-6 NGN
_calculate_final_ngn(pva_usd_cents, fx_rate) ==
  Ceil(pva_usd_cents * (100 + PRICE_MARKUP_PERCENTAGE) * fx_rate, 10000000) * 10

\* What line 56 gets from the provider: nothing (present = FALSE), or a cost in cents
PvaPriceData ==
  [present : {FALSE}, cost_usd : {0}] \cup [present : {TRUE}, cost_usd : {0, 50}]

\* redis GET: the value of an entry that has not expired, or nothing
CachedPrice(key) ==
  IF priceCache[key].value # <<>> /\ now < priceCache[key].until
  THEN priceCache[key].value ELSE <<>>

\* the call whose entry a GET of the key reads now; 0 when it reads nothing
CachedBy(key) == IF CachedPrice(key) = <<>> THEN 0 ELSE priceCache[key].by

\* the calls whose entries, under whatever key, have not expired
CachedCalls == {priceCache[k].by : k \in {c \in CacheKeys : CachedPrice(c) # <<>>}}

\* lines 61-69 for a call: the cost, the capped rate and the price computed
Computed(quote, cost_usd, live_fx_rate) ==
  LET fx_rate == fx_rate_to_use(live_fx_rate)
  IN [quote EXCEPT !.present = TRUE, !.cost_usd = cost_usd,
                   !.live_fx_rate = live_fx_rate, !.fx_rate = fx_rate,
                   !.final_ngn = _calculate_final_ngn(cost_usd, fx_rate)]

\* A call in progress or finished.  seen: the call whose unexpired entry was in
\* the cache under this call's key when it read it; cached: the calls whose
\* entries were in the cache then; fetched: upstream price requests it made;
\* price and quote_key: what it returned (0 and "" for None)
NewQuote(inputs) ==
  [inputs |-> inputs, pc |-> "get", at |-> now, seen |-> CachedBy(CacheKey(inputs)),
   cached |-> CachedCalls, fetched |-> 0, present |-> FALSE, cost_usd |-> 0, live_fx_rate |-> 0, fx_rate |-> 0,
   final_ngn |-> 0, price |-> 0, quote_key |-> ""]

\* A function that never looks at the cache
CacheGet_NoCache(inputs) ==
  /\ Len(quotes) < MaxQuotes
  /\ quotes' = Append(quotes, [NewQuote(inputs) EXCEPT !.pc = "fetch"])
  /\ UNCHANGED <<smsRows, smsLast, hashSeed, smsw, rentw, notes, priceCache, clock, links>>
  /\ UNCHANGED hvars

\* lines 45-53: the call reads the cache; a hit returns the cached price and the key
CacheGet(inputs) ==
  /\ Len(quotes) < MaxQuotes
  /\ LET cache_key == CacheKey(inputs)
         cached_price == CachedPrice(cache_key)
     IN quotes' = Append(quotes,
                    IF cached_price # <<>>
                    THEN [NewQuote(inputs) EXCEPT !.pc = "done",
                                                  !.price = IntOf(cached_price),
                                                  !.quote_key = cache_key]
                    ELSE [NewQuote(inputs) EXCEPT !.pc = "fetch"])
  /\ UNCHANGED <<smsRows, smsLast, hashSeed, smsw, rentw, notes, priceCache, clock, links>>
  /\ UNCHANGED hvars

\* An engine that remembers that a combination has no price
GetPrices_CacheNone(i, pva_price_data) ==
  /\ i \in 1..Len(quotes)
  /\ quotes[i].pc = "fetch"
  /\ LET computed == Computed(quotes[i], pva_price_data.cost_usd, mock_rate)
         unavailable == ~pva_price_data.present \/ computed.final_ngn <= 0
     IN /\ quotes' = [quotes EXCEPT ![i] =
                        IF ~pva_price_data.present
                        THEN [@ EXCEPT !.pc = "done", !.fetched = @ + 1]
                        ELSE IF computed.final_ngn <= 0
                        THEN [computed EXCEPT !.pc = "done", !.fetched = @ + 1]
                        ELSE [computed EXCEPT !.pc = "set", !.fetched = @ + 1]]
        /\ priceCache' = IF unavailable
                         THEN [priceCache EXCEPT ![CacheKey(quotes[i].inputs)] =
                                 [value |-> Str(0),
                                  until |-> now + PRICE_CACHE_DURATION \div 60,
                                  by |-> i]]
                         ELSE priceCache
  /\ UNCHANGED <<smsRows, smsLast, hashSeed, smsw, rentw, notes, clock, links>>
  /\ UNCHANGED hvars

\* lines 55-73: the provider answers, the price is computed; without a cost, or
\* with a price that is not positive, the call returns (None, None)
GetPrices(i, pva_price_data) ==
  /\ i \in 1..Len(quotes)
  /\ quotes[i].pc = "fetch"
  /\ LET computed == Computed(quotes[i], pva_price_data.cost_usd, mock_rate)
     IN quotes' = [quotes EXCEPT ![i] =
                     IF ~pva_price_data.present
                     THEN [@ EXCEPT !.pc = "done", !.fetched = @ + 1]
                     ELSE IF computed.final_ngn <= 0
                     THEN [computed EXCEPT !.pc = "done", !.fetched = @ + 1]
                     ELSE [computed EXCEPT !.pc = "set", !.fetched = @ + 1]]
  /\ UNCHANGED <<smsRows, smsLast, hashSeed, smsw, rentw, notes, priceCache, clock, links>>
  /\ UNCHANGED hvars

\* lines 75-79: the price is stored under the key for PRICE_CACHE_DURATION seconds
\* and returned with the key
CacheSet(i) ==
  /\ i \in 1..Len(quotes)
  /\ quotes[i].pc = "set"
  /\ LET cache_key == CacheKey(quotes[i].inputs)
     IN /\ priceCache' = [priceCache EXCEPT ![cache_key] =
                            [value |-> Str(quotes[i].final_ngn),
                             until |-> now + PRICE_CACHE_DURATION \div 60,
                             by |-> i]]
        /\ quotes' = [quotes EXCEPT ![i] =
                        [@ EXCEPT !.pc = "done", !.price = quotes[i].final_ngn,
                                  !.quote_key = cache_key]]
  /\ UNCHANGED <<smsRows, smsLast, hashSeed, smsw, rentw, notes, clock, links>>
  /\ UNCHANGED hvars

\* Nothing in the database, nothing cached
InitQuote ==
  /\ payments = <<>> /\ numbers = <<>> /\ priceLock = <<>>
  /\ now = 0
  /\ pc = [h \in Handlers |-> "idle"]
  /\ req = [h \in Handlers |-> NoRequest]
  /\ loc = [h \in Handlers |-> NoLocals]
  /\ resp = [h \in Handlers |-> NoResponse]
  /\ calls = [p \in PaymentIds |-> NoCalls]
  /\ delivered = 0
  /\ created = 0
  /\ InitWorkers

\* Calls of get_final_ngn_price, concurrent ones included, while half an hour or
\* an hour passes
NextQuote ==
  \/ \E inputs \in QuoteInputs : CacheGet(inputs)
  \/ \E i \in 1..MaxQuotes, d \in PvaPriceData : GetPrices(i, d)
  \/ \E i \in 1..MaxQuotes : CacheSet(i)
  \/ \E minutes \in {30, 60} : Tick(minutes)

SpecQuote == InitQuote /\ [][NextQuote]_vars

(* --------------------------- the provider calls of a poll ------------- *)
\* What the requests behind lines 48-63 of sms_worker.py come back with.
\* countries: get_countries lists the country of the number (FALSE also when
\* load_countries.php failed: pva_service.py 31-33 and 44 give []).
\* services: get_services failed (load_apps.php: again []), or its list is
\* without the service, or with it.  response: what _make_request got from
\* get_sms.php: nothing (a transport or HTTP error, None), the text that no code
\* has come yet, or a message
ProviderCalls ==
  [countries : BOOLEAN, services : {"failed", "without", "with"},
   response : {"none", "waiting", "A"}]

\* sms_worker.py 49-53 and pva_service.py 111-121: the dict the worker gets
get_sms(call) ==
  IF ~call.countries THEN [country |-> FALSE, status |-> "WAITING", code |-> NoText]
  ELSE IF call.services # "with" THEN [country |-> TRUE, status |-> "ERROR", code |-> NoText]
  ELSE IF call.response \in {"none", "waiting"}
  THEN [country |-> TRUE, status |-> "WAITING", code |-> NoText]
  ELSE [country |-> TRUE, status |-> "OK", code |-> call.response]

\* lines 48-63: the provider calls for the next number are made
SmsAsk(call) ==
  /\ smsw.pc = "poll"
  /\ smsw.queue # {}
  /\ smsw.asked.number # Min(smsw.queue)
  /\ smsw' = [smsw EXCEPT !.asked = [number |-> Min(smsw.queue),
                                     countries |-> call.countries,
                                     services |-> call.services,
                                     response |-> call.response]]
  /\ UNCHANGED <<numbers, smsRows, smsLast, hashSeed, rentw, notes, priceCache, quotes, clock, links>>
  /\ UNCHANGED hvarsButNumbers

\* lines 65-83: the worker acts on what the calls gave
SmsHandle ==
  /\ smsw.pc = "poll"
  /\ smsw.queue # {}
  /\ smsw.asked.number = Min(smsw.queue)
  /\ SmsPoll(get_sms(smsw.asked))

\* The SMS worker with the provider calls of each poll spelled out
NextPoll ==
  \/ SmsSelectActive
  \/ \E call \in ProviderCalls : SmsAsk(call)
  \/ SmsHandle
  \/ \E ok \in BOOLEAN : SmsNotify(ok)
  \/ SmsPersist
  \/ \E ok \in BOOLEAN : SmsMark(ok)
  \/ SmsSelectExpired
  \/ SmsCommitExpired
  \/ Tick(DEFAULT_TEMP_DURATION_MINUTES)

SpecPoll == InitSms /\ [][NextPoll]_vars

(* --------------------------- a sweep over two numbers ------------------ *)
\* A second temporary number of the same user, bought at time 0 with Payment 2
SecondTempPayment ==
  [amount_ngn |-> 1600 * 100, status |-> "successful",
   paystack_ref |-> TransactionRef(2),
   locked_price_ref |-> <<"pricing", "1", "5", "temp">>]
SecondTempNumber ==
  [phone_number |-> "+2348000000003", pva_activation_id |-> "+2348000000003",
   service_code |-> "5", country_code |-> "1", status |-> "active",
   is_rent |-> FALSE, expires_at |-> DEFAULT_TEMP_DURATION_MINUTES,
   renewal_notice_sent |-> FALSE, payment_id |-> 2]

\* A database left by an earlier run: two active temporary numbers
InitPair ==
  /\ payments = <<SettledTempPayment, SecondTempPayment>>
  /\ numbers = <<SettledTempNumber, SecondTempNumber>>
  /\ priceLock = <<NoLock, NoLock>>
  /\ now = 0
  /\ pc = [h \in Handlers |-> "idle"]
  /\ req = [h \in Handlers |-> NoRequest]
  /\ loc = [h \in Handlers |-> NoLocals]
  /\ resp = [h \in Handlers |-> NoResponse]
  /\ calls = [p \in PaymentIds |-> NoCalls]
  /\ delivered = 0
  /\ created = 0
  /\ InitWorkers

\* The sweeps of the SMS worker over the two numbers, every await free to fail
NextPair ==
  \/ clock.sms < MaxLoops /\ SmsSelectActive
  \/ \E o \in LoopOutcomes : SmsPoll(o)
  \/ \E ok \in BOOLEAN : SmsNotify(ok)
  \/ SmsPersist
  \/ \E ok \in BOOLEAN : SmsMark(ok)
  \/ SmsSelectExpired
  \/ SmsCommitExpired
  \/ SmsRaise
  \/ Tick(DEFAULT_TEMP_DURATION_MINUTES)

SpecPair == InitPair /\ [][NextPair]_vars

(* --------------------------- shutdown ---------------------------------- *)
\* run.py 100-106: the polling of the bot ends and main cancels the SMS worker's
\* task. CancelledError is raised at the await the task is suspended on, it is not
\* an Exception (sms_worker.py 111), so it leaves the function; the session of the
\* sweep is closed uncommitted
Shutdown ==
  /\ smsw.pc # "cancelled"
  /\ smsw' = [SmsAsleep EXCEPT !.pc = "cancelled"]
  /\ UNCHANGED <<numbers, smsRows, smsLast, hashSeed, rentw, notes, priceCache, quotes, clock, links>>
  /\ UNCHANGED hvarsButNumbers

\* The SMS worker until the process is shut down
NextShutdown ==
  \/ SmsStep
  \/ SmsRaise
  \/ Tick(DEFAULT_TEMP_DURATION_MINUTES)
  \/ Shutdown

SpecShutdown == InitSms /\ [][NextShutdown]_vars

(* --------------------------- the whole process ------------------------- *)
\* the quotes a dialog about service 5 of country 1 asks for
FrameInputs == {inputs \in QuoteInputs : inputs[1] = "1" /\ inputs[2] = "5"}

\* No quote was asked for and no sweep has started
DialogAlone == quotes = <<>> /\ clock.sms = 0 /\ clock.rental = 0
\* No payment link was asked for and no sweep has started
QuoteAlone == links = <<>> /\ clock.sms = 0 /\ clock.rental = 0
\* No payment link and no quote was asked for
WorkersAlone == links = <<>> /\ quotes = <<>>

\* Everything that runs in the process and could write the payments table, one
\* activity in a run: a dialog that asks for a payment link and the webhook of the
\* gateway, or requests for quotes, or the sweeps of the two workers
NextFrame ==
  \/ \E p \in Prices, r \in PriceRefs, committed \in BOOLEAN :
        DialogAlone /\ LinkCommit(p, r, committed)
  \/ \E k \in 1..MaxPayments, stored \in BOOLEAN : DialogAlone /\ LinkLock(k, stored)
  \/ \E k \in 1..MaxPayments, outcome \in GatewayOutcomes :
        DialogAlone /\ LinkGateway(k, outcome)
  \/ \E request \in LinkRequests : DialogAlone /\ Deliver("h1", request)
  \/ DialogAlone /\ Authenticate("h1")
  \/ DialogAlone /\ Lookup("h1")
  \/ \E v \in VerifyResults : DialogAlone /\ Verify("h1", v)
  \/ DialogAlone /\ CommitStatus("h1")
  \/ DialogAlone /\ GetNumberToRenew("h1")
  \/ \E o \in {"found", "missing", "raise"} : DialogAlone /\ GetCountries("h1", o)
  \/ \E o \in {"ok", "fail", "no_service"} : DialogAlone /\ RenewRentalNumber("h1", o)
  \/ DialogAlone /\ CommitRenewal("h1")
  \/ \E o \in {"ok", "fail", "no_service"}, n \in PhoneNumbers :
        DialogAlone /\ BuyNumber("h1", o, n)
  \/ DialogAlone /\ CommitNumber("h1")
  \/ \E ok \in BOOLEAN : DialogAlone /\ SendMessage("h1", ok)
  \/ \E inputs \in FrameInputs : QuoteAlone /\ CacheGet(inputs)
  \/ \E i \in 1..MaxQuotes, d \in PvaPriceData : QuoteAlone /\ GetPrices(i, d)
  \/ \E i \in 1..MaxQuotes : QuoteAlone /\ CacheSet(i)
  \/ WorkersAlone /\ clock.sms < MaxLoops /\ SmsSelectActive
  \/ \E o \in LoopOutcomes : WorkersAlone /\ SmsPoll(o)
  \/ \E ok \in BOOLEAN : WorkersAlone /\ SmsNotify(ok)
  \/ WorkersAlone /\ SmsPersist
  \/ \E ok \in BOOLEAN : WorkersAlone /\ SmsMark(ok)
  \/ WorkersAlone /\ SmsSelectExpired
  \/ WorkersAlone /\ SmsCommitExpired
  \/ WorkersAlone /\ SmsRaise
  \/ WorkersAlone /\ clock.rental < MaxLoops /\ RentalSelectWarning
  \/ \E o \in GetFinalPriceOutcomes : WorkersAlone /\ RentalQuote(o)
  \/ \E ok \in BOOLEAN : WorkersAlone /\ RentalWarn(ok)
  \/ \E ok \in BOOLEAN : WorkersAlone /\ RentalSelectExpired(ok)
  \/ \E ok \in BOOLEAN : WorkersAlone /\ RentalExpireNotify(ok)
  \/ \E ok \in BOOLEAN : WorkersAlone /\ RentalCommit(ok)
  \/ WorkersAlone /\ Tick(RentalDelta)

SpecFrame == Init /\ [][NextFrame]_vars

(* --------------------------- a moving upstream cost -------------------- *)
\* what the provider answers while its cost for a service moves between 0.25 and
\* 0.50 USD
DriftPriceData == [present : {TRUE}, cost_usd : {25, 50}]

\* Calls of get_final_ngn_price for service 5 of country 1, concurrent ones
\* included, while the upstream cost moves and half an hour or an hour passes
NextDrift ==
  \/ \E inputs \in FrameInputs : CacheGet(inputs)
  \/ \E i \in 1..MaxQuotes, d \in DriftPriceData : GetPrices(i, d)
  \/ \E i \in 1..MaxQuotes : CacheSet(i)
  \/ \E minutes \in {30, 60} : Tick(minutes)

SpecDrift == InitQuote /\ [][NextDrift]_vars

(* --------------------------- the purchase dialog ----------------------- *)
\* The quote key of a call as the colon-separated parts of the string
PriceRefOf(inputs) == <<"pricing", inputs[1], inputs[2], inputs[3]>>

\* router.py 217-229, process_price_request: the dialog asks for a quote when no
\* other call of its is running; a price that comes back is shown with its key
DialogQuote(inputs) ==
  /\ \A i \in 1..Len(quotes) : quotes[i].pc = "done"
  /\ CacheGet(inputs)

\* router.py 230-240, cq_pay_now.  shown: the call whose price and key are on the
\* screen, the key being the callback data of the pay button (line 233);
\* requoted: the call of line 236 for the same selections, made after it.  The
\* link is created with the price of the second and the key of the first (line 238)
cq_pay_now(shown, requoted) ==
  /\ created < MaxPayments
  /\ requoted \in 1..Len(quotes)
  /\ shown \in 1..(requoted - 1)
  /\ quotes[shown].pc = "done" /\ quotes[shown].price > 0
  /\ quotes[requoted].pc = "done" /\ quotes[requoted].price > 0
  /\ quotes[requoted].inputs = quotes[shown].inputs
  /\ \A k \in 1..Len(links) : links[k].requoted # requoted
  /\ LET price_ref == PriceRefOf(quotes[shown].inputs)
         price == quotes[requoted].price
         id == Len(payments) + 1
         new_payment == [amount_ngn |-> price * 100,
                         status |-> "pending",
                         paystack_ref |-> TransactionRef(id),
                         locked_price_ref |-> price_ref]
     IN /\ payments' = Append(payments, new_payment)
        /\ priceLock' = Append(priceLock, Lock(price_ref))
        /\ links' = Append(links, [new_payment |-> id, pc |-> "done", called |-> "url",
                                   returned |-> "url", shown |-> shown,
                                   requoted |-> requoted])
  /\ created' = created + 1
  /\ UNCHANGED <<numbers, now, pc, req, loc, resp, calls, delivered>>
  /\ UNCHANGED <<smsRows, smsLast, hashSeed, smsw, rentw, notes, priceCache, quotes, clock>>

\* A user goes through the purchase dialog while the upstream cost moves and
\* half an hour or an hour passes
NextPay ==
  \/ \E inputs \in QuoteInputs : DialogQuote(inputs)
  \/ \E i \in 1..MaxQuotes, d \in DriftPriceData : GetPrices(i, d)
  \/ \E i \in 1..MaxQuotes : CacheSet(i)
  \/ \E shown \in 1..MaxQuotes, requoted \in 1..MaxQuotes : cq_pay_now(shown, requoted)
  \/ \E minutes \in {30, 60} : Tick(minutes)

SpecPay == InitQuote /\ [][NextPay]_vars

(* --------------------------- the price function ------------------------ *)
\* costs in cents the price function is applied to
CostsUsd == {1, 25, 33, 50}
\* rates in hundredths of a naira: tiny, round, the mock's, the cap
FxRates == {1, 100000, mock_rate, FX_RATE_CAP * 100}
\* rates a live source may report: the mock's, the cap, one above the cap
LiveFxRates == {mock_rate, FX_RATE_CAP * 100, FX_RATE_CAP * 100 + 5000}

\* pricing_worker.py 22-39 applied to a cost and a rate
Price(cost_usd, fx_rate) ==
  /\ Len(quotes) < MaxQuotes
  /\ quotes' = Append(quotes,
                 [NewQuote(<<"1", "5", "temp">>) EXCEPT
                    !.pc = "done", !.present = TRUE, !.cost_usd = cost_usd,
                    !.fx_rate = fx_rate,
                    !.final_ngn = _calculate_final_ngn(cost_usd, fx_rate)])
  /\ UNCHANGED <<smsRows, smsLast, hashSeed, smsw, rentw, notes, priceCache, clock, links>>
  /\ UNCHANGED hvars

\* pricing_worker.py 61-69 applied to a cost and the rate of a live source
Convert(cost_usd, live_fx_rate) ==
  /\ Len(quotes) < MaxQuotes
  /\ quotes' = Append(quotes,
                 [Computed(NewQuote(<<"1", "5", "temp">>), cost_usd, live_fx_rate)
                    EXCEPT !.pc = "done"])
  /\ UNCHANGED <<smsRows, smsLast, hashSeed, smsw, rentw, notes, priceCache, clock, links>>
  /\ UNCHANGED hvars

\* The price function and the capped conversion on bounded inputs
NextCalc ==
  \/ \E c \in CostsUsd, r \in FxRates : Price(c, r)
  \/ \E c \in CostsUsd, r \in LiveFxRates : Convert(c, r)

SpecCalc == InitQuote /\ [][NextCalc]_vars

(* ------------------------------ properties ----------------------------- *)
\* Number rows funded by Payment p
NumbersOf(p) == {n \in 1..Len(numbers) : numbers[n].payment_id = p}

\* Handler h takes a step out of the program point label
Leaves(h, label) == pc[h] = label /\ pc'[h] # label

\* No table, lock or external call is touched by the step
NoSideEffects == UNCHANGED <<payments, numbers, priceLock, calls>>

\* The reference handler h carries is that of a row whose status is st
RowHasStatus(h, st) ==
  \E i \in 1..Len(payments) :
     payments[i].paystack_ref = loc[h].reference /\ payments[i].status = st

(* C1: Webhook idempotence, deliveries one after another.  When a valid       *)
(* charge.success event is delivered for a Payment that is already            *)
(* `successful`, the handler returns success (HTTP 200) and has no side       *)
(* effect: no verification call, no provider purchase or renewal, no Number   *)
(* row, no change of an expiry, no notification; and over any sequence of     *)
(* deliveries a Payment funds at most one Number and at most one purchase     *)
(* request is sent to the provider for it.                                    *)
C1_Redelivery ==
  /\ [](\A p \in PaymentIds : Cardinality(NumbersOf(p)) <= 1 /\ calls[p].buy <= 1)
  /\ [][\A h \in Handlers :
          Leaves(h, "lookup") /\ RowHasStatus(h, "successful")
             => /\ pc'[h] = "done"
                /\ resp'[h].status = 200
                /\ NoSideEffects]_vars

\* C1 witness: a Payment created in this run was settled and provisioned by the
\* first delivery, and the second delivery was answered at line 54
C1_Witness ==
  /\ created = 1 /\ delivered = 2
  /\ \A h \in Handlers : Free(h)
  /\ resp["h1"] = [status |-> 200, at |-> "payment_worker.py:54"]
  /\ \E p \in 1..Len(payments) :
        /\ payments[p].status = "successful"
        /\ ~IsRenewal(payments[p].locked_price_ref)
        /\ calls[p] = [verify |-> 1, buy |-> 1, renew |-> 0, extend |-> 0, sent |-> 1]
        /\ Cardinality(NumbersOf(p)) = 1
        /\ p > Len(payments) - created

\* C1 as stated: once no delivery is in flight, a successful new-purchase Payment
\* has exactly one Number
C1_ExactlyOneNumber ==
  (\A h \in Handlers : Free(h)) =>
     \A p \in 1..Len(payments) :
        (payments[p].status = "successful" /\ ~IsRenewal(payments[p].locked_price_ref))
           => Cardinality(NumbersOf(p)) = 1

(* C2: Exactly-once provisioning under concurrency.  For every interleaving   *)
(* of handlers working on the same reference, at most one purchase request    *)
(* and at most one renewal request is sent to the provider for a Payment, at  *)
(* most one Number row is created for it, and the expiry is extended at most  *)
(* once.                                                                      *)
C2_AtMostOneProvisioning ==
  \A p \in PaymentIds :
     /\ calls[p].buy <= 1
     /\ calls[p].renew <= 1
     /\ calls[p].extend <= 1
     /\ Cardinality(NumbersOf(p)) <= 1

C4_SuccessfulTerminal ==
  [][\A p \in 1..Len(payments) :
       payments[p].status = "successful" => payments'[p].status = "successful"]_vars

(* C5: `failed` and `disputed` are terminal.  Once a Payment is `failed` or   *)
(* `disputed`, no later delivery for its reference changes its status,        *)
(* whatever the gateway then reports.                                         *)
C5_FailedDisputedTerminal ==
  [][\A p \in 1..Len(payments) :
       payments[p].status \in {"failed", "disputed"}
          => payments'[p].status = payments[p].status]_vars

(* C6: Provisioning is a consequence of payment success.  In every reachable  *)
(* state every Number row is linked to a Payment whose status is              *)
(* `successful`.                                                              *)
C6_NumberFundedBySuccessful ==
  \A n \in 1..Len(numbers) :
     /\ numbers[n].payment_id \in 1..Len(payments)
     /\ payments[numbers[n].payment_id].status = "successful"

(* C7: Authenticity gate.  A request whose signature header is not the        *)
(* HMAC-SHA512 of the exact raw body under the shared secret is answered with *)
(* 401 and nothing of its payload is processed: no row is read or changed, no *)
(* verification, provider or notification call is made.                       *)
C7_AuthenticityGate ==
  [][\A h \in Handlers :
       (Leaves(h, "read") /\ req[h].signature # HmacSha512(SecretKey, req[h].body))
          => /\ pc'[h] = "done"
             /\ resp'[h] = [status |-> 401, at |-> "run.py:30"]
             /\ loc'[h] = NoLocals
             /\ NoSideEffects]_vars

\* C7 witness: a request for a pending Payment was refused with 401, and the
\* Payment is still pending and unverified
C7_Witness ==
  \E h \in Handlers, p \in 1..Len(payments) :
     /\ pc[h] = "done"
     /\ resp[h] = [status |-> 401, at |-> "run.py:30"]
     /\ payments[p].status = "pending"
     /\ calls[p] = NoCalls

(* C8: Unknown reference.  A charge.success event whose reference matches no  *)
(* Payment row is rejected with a failure status; no Payment row is created,  *)
(* no verification or provider call is made, and no Payment or Number is      *)
(* changed.                                                                   *)
C8_UnknownReference ==
  [][\A h \in Handlers :
       (/\ Leaves(h, "lookup")
        /\ \A i \in 1..Len(payments) : payments[i].paystack_ref # loc[h].reference)
          => /\ pc'[h] = "done"
             /\ resp'[h].status = 400
             /\ NoSideEffects]_vars

\* C8 witness: with a Payment on file, a delivery for another reference ended at
\* line 53
C8_Witness ==
  \E h \in Handlers :
     /\ pc[h] = "done"
     /\ resp[h] = [status |-> 400, at |-> "payment_worker.py:53"]
     /\ Len(payments) >= 1
     /\ \A p \in PaymentIds : calls[p] = NoCalls

(* C9: Verification failure.  When a handler has reached the verification of  *)
(* a pending Payment and the gateway reports anything other than success, the *)
(* Payment is marked `failed`, the handler stops, and nothing is provisioned: *)
(* the handler always gets from the verification call to the commit of the    *)
(* status, and that commit records `failed` for a non-success result.         *)
C9_VerificationFailure ==
  [][\A h \in Handlers :
       /\ (Leaves(h, "verify") /\ loc[h].loaded = "pending")
             => pc'[h] = "commit_status"
       /\ (/\ Leaves(h, "commit_status")
           /\ loc[h].loaded = "pending"
           /\ loc[h].verified.status # "success")
             => /\ payments'[loc[h].payment].status = "failed"
                /\ pc'[h] = "done"
                /\ UNCHANGED <<numbers>>]_vars

(* C10: Event-type filter.  An authentic event whose type is not              *)
(* charge.success changes no state, makes no external call, and is            *)
(* acknowledged to the caller (HTTP 200) rather than reported as a failure.   *)
C10_EventFilter ==
  [][\A h \in Handlers :
       (/\ Leaves(h, "read")
        /\ req[h].signature = HmacSha512(SecretKey, req[h].body)
        /\ req[h].body.content.json
        /\ req[h].body.content.event # "charge.success")
          => /\ pc'[h] = "done"
             /\ resp'[h].status = 200
             /\ NoSideEffects]_vars

\* Program points of process_webhook_event after the commit of line 67
ProvisioningPoints ==
  {"get_number", "countries", "renew", "commit_renewal", "buy", "commit_number", "notify"}

(* C11: No rollback on provisioning failure.  After the Payment was committed *)
(* `successful`, no step of the provisioning branch writes the payments       *)
(* table, whatever fails: the provider purchase or renewal, the lookup of the *)
(* renewal target or of the country name, or an exception; the Payment is     *)
(* `successful` when the handler ends, and an exception is reported to the    *)
(* caller as a failure.                                                       *)
C11_NoRollback ==
  [][\A h \in Handlers :
       (pc[h] \in ProvisioningPoints /\ pc'[h] # pc[h])
          => /\ payments' = payments
             /\ payments'[loc[h].payment].status = "successful"
             /\ (resp'[h].at = "payment_worker.py:144" => resp'[h].status = 400)]_vars

\* C11 witness: a handler ended in the except block of line 142 for a Payment of
\* this run, which is successful and has no Number
C11_Witness ==
  \E h \in Handlers, p \in 1..Len(payments) :
     /\ pc[h] = "done"
     /\ resp[h] = [status |-> 400, at |-> "payment_worker.py:144"]
     /\ payments[p].status = "successful"
     /\ calls[p].verify = 1
     /\ NumbersOf(p) = {}
     /\ calls[p].extend = 0

(* C12: The user is told about every provisioning failure.  Whenever a        *)
(* handler ends after the commit of `successful` without having created a     *)
(* Number or extended an expiry, it ends in the send_message call that tells  *)
(* the user to contact support.                                               *)
C12_UserNotified ==
  [][\A h \in Handlers :
       (/\ pc[h] \in ProvisioningPoints
        /\ pc'[h] = "done"
        /\ loc[h].note \notin {"issued", "renewed"})
          => pc[h] = "notify"]_vars

\* Sms rows of number n that hold the text t
SmsRowsOf(n, t) ==
  {i \in 1..Len(smsRows) : smsRows[i].number_id = n /\ smsRows[i].full_text = t}

(* C16: SMS dedup.  Over any sequence of sweeps and of provider answers for a *)
(* Number (WAITING, or OK with texts that may repeat, such as A, B, A), each  *)
(* distinct message of the Number is stored as at most one Sms row and the    *)
(* user is notified of it at most once.                                       *)
C16_SmsDedup ==
  \A n \in 1..Len(numbers), t \in Texts :
     /\ Cardinality(SmsRowsOf(n, t)) <= 1
     /\ notes[n].sms[t] <= 1

(* C17: Bounded duplicates after a crash.  If the worker dies or the marker   *)
(* write fails after the Sms row was stored, the user gets at most one more   *)
(* notification for that message over all later sweeps, and the message is    *)
(* not lost: for every Sms row the user was notified of its text at least     *)
(* once and at most twice.                                                    *)
C17_BoundedDuplicates ==
  \A i \in 1..Len(smsRows) :
     /\ notes[smsRows[i].number_id].sms[smsRows[i].full_text] >= 1
     /\ notes[smsRows[i].number_id].sms[smsRows[i].full_text] <= 2

C13_RenewalEffect ==
  [][\A h \in Handlers :
       pc[h] = "commit_renewal" /\ pc'[h] = "notify" =>
         LET n == loc[h].number
         IN /\ numbers'[n].expires_at > numbers[n].expires_at
            /\ numbers'[n].expires_at = numbers[n].expires_at + RentalDelta
            /\ ~numbers'[n].renewal_notice_sent]_vars

\* C14: a step that takes a Number from active to expired while only expiry
\* passes deactivate (no terminal provider status) leaves no expiry in the future
C14_NoPrematureExpiry ==
  [][\A n \in 1..Len(numbers) :
       numbers[n].status = "active" /\ numbers'[n].status = "expired" =>
         numbers'[n].expires_at <= now']_vars

\* C15: no step of a webhook task, a renewal or a worker sweep takes a Number
\* whose status is not active back to active
C15_TerminalNeverReverted ==
  [][\A n \in 1..Len(numbers) :
       numbers[n].status # "active" => numbers'[n].status # "active"]_vars

\* an expired rental whose paid renewal was committed
C15_Witness ==
  /\ numbers[1].status = "expired"
  /\ calls[2].extend >= 1
  /\ numbers[1].expires_at > now
  /\ \A h \in Handlers : pc[h] \in {"idle", "done"}

\* C19: before the expiry of the rental and with no renewal, the user has been
\* sent at most one renewal notice, whatever failed later in a sweep
C19_RenewalNoticeOnce ==
  clock.ticks = 0 /\ (\A p \in PaymentIds : calls[p].extend = 0)
    => \A n \in NumberIds : notes[n].renewal <= 1

\* C20: a call made while the entry another call with the same inputs stored has
\* not expired returns that call's price and quote key and fetches no price upstream
C20_QuoteIdempotence ==
  \A j \in 1..Len(quotes) :
    quotes[j].seen # 0 /\ quotes[j].pc = "done" =>
      LET i == quotes[j].seen
      IN /\ quotes[i].inputs = quotes[j].inputs
         /\ quotes[j].price = quotes[i].price
         /\ quotes[j].quote_key = quotes[i].quote_key
         /\ quotes[j].fetched = 0

\* a second call half an hour after the first stored its price
C20_Witness ==
  /\ Len(quotes) >= 2
  /\ quotes[1].pc = "done" /\ quotes[1].fetched = 1 /\ quotes[1].price > 0
  /\ quotes[2].pc = "done" /\ quotes[2].seen = 1
  /\ quotes[2].at > quotes[1].at

\* cost * (1 + markup_pct/100) * fx_rate of a computed quote, in 1e-6 NGN
Exact(q) == q.cost_usd * (100 + PRICE_MARKUP_PERCENTAGE) * q.fx_rate

\* the calls that computed a price from a positive cost and a positive rate
Priced == {i \in 1..Len(quotes) :
             quotes[i].present /\ quotes[i].cost_usd > 0 /\ quotes[i].fx_rate > 0}

\* C21: the rate multiplied into a computed price is the live rate when it is
\* at most the cap and the cap otherwise, so the price is never above the
\* price at the cap
C21_FxCap ==
  \A i \in 1..Len(quotes) :
    quotes[i].live_fx_rate > 0 =>
      /\ quotes[i].live_fx_rate <= FX_RATE_CAP * 100
           => quotes[i].fx_rate = quotes[i].live_fx_rate
      /\ quotes[i].live_fx_rate > FX_RATE_CAP * 100
           => quotes[i].fx_rate = FX_RATE_CAP * 100
      /\ quotes[i].cost_usd > 0 =>
           (quotes[i].final_ngn - 10) * 1000000
              < quotes[i].cost_usd * (100 + PRICE_MARKUP_PERCENTAGE) * FX_RATE_CAP * 100

\* a price computed while the live rate was above the cap
C21_Witness ==
  \E i \in 1..Len(quotes) :
    /\ quotes[i].live_fx_rate > FX_RATE_CAP * 100
    /\ quotes[i].cost_usd = 50
    /\ quotes[i].final_ngn = 1600

\* C22: for a positive cost and a positive rate the price is a positive multiple
\* of 10, and it does not decrease when the cost grows at the same rate or the
\* rate grows at the same cost
C22_RoundingMonotone ==
  /\ \A i \in Priced : quotes[i].final_ngn > 0 /\ quotes[i].final_ngn % 10 = 0
  /\ \A i, j \in Priced :
       /\ quotes[i].fx_rate = quotes[j].fx_rate /\ quotes[i].cost_usd <= quotes[j].cost_usd
            => quotes[i].final_ngn <= quotes[j].final_ngn
       /\ quotes[i].cost_usd = quotes[j].cost_usd /\ quotes[i].fx_rate <= quotes[j].fx_rate
            => quotes[i].final_ngn <= quotes[j].final_ngn

\* the smallest cost at the smallest rate, and a larger cost at the same rate
C22_Witness ==
  /\ Len(quotes) >= 2
  /\ quotes[1].cost_usd = 1 /\ quotes[1].fx_rate = 1 /\ quotes[1].final_ngn = 10
  /\ quotes[2].cost_usd = 50 /\ quotes[2].fx_rate = 1 /\ quotes[2].live_fx_rate = 0

C25_UnavailableSentinel ==
  [][\A i \in 1..Len(quotes) :
       quotes[i].pc = "fetch" /\ quotes'[i].pc # "fetch"
         /\ (~quotes'[i].present \/ quotes'[i].cost_usd <= 0 \/ quotes'[i].final_ngn <= 0)
       => /\ quotes'[i].pc = "done"
          /\ quotes'[i].price = 0 /\ quotes'[i].quote_key = ""
          /\ priceCache' = priceCache]_vars

\* both unavailable answers were given and nothing is cached
C25_Witness ==
  /\ Len(quotes) >= 2
  /\ quotes[1].pc = "done" /\ quotes[1].fetched = 1 /\ ~quotes[1].present
  /\ quotes[2].pc = "done" /\ quotes[2].fetched = 1
  /\ quotes[2].present /\ quotes[2].cost_usd = 0
  /\ quotes[1].price = 0 /\ quotes[2].price = 0
  /\ \A k \in CacheKeys : priceCache[k] = NoEntry


(* --------------------------- claim C26 --------------------------------- *)
\* C26: create_payment_link commits the Payment row with status pending before it
\* calls the gateway; when the gateway call returns nothing or raises, the call
\* returns None and leaves the ledger as it was, the row of the call included
C26_PendingRowSurvives ==
  [][\A k \in 1..Len(links') :
       LET l == links'[k]
       IN /\ (k > Len(links) /\ l.new_payment > 0)
               => /\ l.new_payment \in 1..Len(payments')
                  /\ payments'[l.new_payment].status = "pending"
                  /\ l.called = "no"
          /\ (l.pc = "gateway" \/ l.called # "no")
               => l.new_payment \in 1..Len(payments')
          /\ (k <= Len(links) /\ links[k].called = "no" /\ l.called \in {"none", "raise"})
               => /\ l.returned = "None"
                  /\ payments' = payments]_vars

\* the gateway call of a link raised, the call returned None, the row is pending
C26_Witness ==
  \E k \in 1..Len(links) :
     /\ links[k].called = "raise"
     /\ links[k].returned = "None"
     /\ links[k].new_payment \in 1..Len(payments)
     /\ payments[links[k].new_payment].status = "pending"
     /\ LockLive(links[k].new_payment)

(* --------------------------- claim C27 --------------------------------- *)
\* C27: a price lock exists only for a Payment whose status is pending; redis
\* holds one key per Payment id, so there is at most one lock per Payment
C27_LockOnlyWhilePending ==
  \A id \in 1..Len(priceLock) :
     LockLive(id) => /\ id \in 1..Len(payments)
                     /\ payments[id].status = "pending"

(* --------------------------- claim C28 --------------------------------- *)
\* C28: an exception raised during a sweep of the SMS worker or of the rental
\* worker does not end the worker's loop: whatever fails, each worker begins every
\* one of its MaxLoops sweeps and ends up in the sleep of its loop again
C28_WorkersSurvive ==
  <>[](/\ clock.sms = MaxLoops /\ smsw.pc = "sleep"
       /\ clock.rental = MaxLoops /\ rentw.pc = "sleep")

\* Both workers are in a later sweep after a failed one: an Sms row was committed
\* and the redis set of its marker raised; the expiry note of the rental was sent
\* and the commit of its flip raised
C28_Witness ==
  /\ clock.sms >= 2 /\ smsw.pc = "poll"
  /\ Len(smsRows) > 0 /\ smsLast[smsRows[1].number_id] = NoMarker
  /\ clock.rental >= 2 /\ rentw.pc = "warn"
  /\ notes[1].expired = 1 /\ numbers[1].status = "active"

(* --------------------------- claim C29 --------------------------------- *)
\* C29: when an expiry pass flips an active Number whose expires_at has passed to
\* expired, the owning user has received exactly one expiry notification for it
C29_ExpiryAnnouncedOnce ==
  [][\A n \in 1..Len(numbers) :
       (/\ smsw.pc = "expire" \/ rentw.pc = "expire"
        /\ numbers[n].status = "active"
        /\ numbers'[n].status = "expired"
        /\ numbers[n].expires_at <= now)
         => notes'[n].expired = 1]_vars

(* --------------------------- claim C30 --------------------------------- *)
\* C30: the dedup marker of a Number is set to a message's identifier only when
\* the SmsMessage row of that message has been committed and the user has been
\* sent the message; a sweep that ends in the notification or in the commit
\* leaves every marker as it was
C30_NotifyThenMark ==
  [][/\ \A n \in NumberIds :
          smsLast'[n] # smsLast[n]
            => \E i \in 1..Len(smsRows) :
                  /\ smsRows[i].number_id = n
                  /\ smsRows[i].pva_sms_id = smsLast'[n]
                  /\ notes[n].sms[smsRows[i].full_text] >= 1
     /\ (smsw.pc \in {"notify", "persist"} /\ smsw'.pc = "sleep")
          => smsLast' = smsLast]_vars

\* The marker of Number 1 was set for a message, and a later sweep that told the
\* user of another one ended in the commit (the row was there already): the marker
\* is the one set before
C30_Witness ==
  /\ smsw.pc = "sleep"
  /\ \E i, j \in 1..Len(smsRows) :
        /\ i # j
        /\ smsRows[i].number_id = 1 /\ smsRows[j].number_id = 1
        /\ smsLast[1] = smsRows[i].pva_sms_id
        /\ notes[1].sms[smsRows[i].full_text] = 1
        /\ notes[1].sms[smsRows[j].full_text] = 2

(* --------------------------- claim C31 --------------------------------- *)
\* C31: the flag renewal_notice_sent of a rental becomes true only when a renewal
\* notice for it has been delivered; a rental that is active, inside the warning
\* window and has had no notice delivered (no quote, or a failed send) is selected
\* by every warning pass that starts
C31_FlagOnlyWithNotice ==
  [][\A n \in 1..Len(numbers) :
       /\ (~numbers[n].renewal_notice_sent /\ numbers'[n].renewal_notice_sent)
            => notes[n].renewal >= 1
       /\ (/\ rentw.pc = "sleep" /\ rentw'.pc = "warn"
           /\ numbers[n].is_rent /\ numbers[n].status = "active"
           /\ numbers[n].expires_at <= now + WarningDelta
           /\ notes[n].renewal = 0)
            => n \in rentw'.queue]_vars

\* The second warning pass has selected rental 1 again: the first one ended
\* without a delivered notice and the flag is false
C31_Witness ==
  /\ clock.rental = 2
  /\ rentw.pc = "warn"
  /\ 1 \in rentw.queue
  /\ notes[1].renewal = 0
  /\ ~numbers[1].renewal_notice_sent

(* --------------------------- claim C32 --------------------------------- *)
\* C32: the provider endpoint the SMS worker polls for a Number is the one of the
\* Number's stored rental flag: the rental endpoint for a rental, the temporary
\* one for a temporary Number
C32_EndpointByRentalFlag ==
  (smsw.pc = "poll" /\ smsw.queue # {})
    => LET n == Min(smsw.queue)
       IN get_sms_endpoint(PollIsRent(n)) = get_sms_endpoint(numbers[n].is_rent)

(* --------------------------- claim C33 --------------------------------- *)
\* C33: no step deletes a Payment row or changes the amount, the reference or the
\* locked quote key of one; a row is added only by create_payment_link, with
\* status pending; the status of a row changes only in a step of the webhook
\* handler that works on that row after its verification call has returned; the
\* quote function and the two workers leave the table as it is
C33_OnlyReconcilerMutates ==
  [][/\ Len(payments') >= Len(payments)
     /\ \A p \in 1..Len(payments) :
          /\ payments'[p].amount_ngn = payments[p].amount_ngn
          /\ payments'[p].paystack_ref = payments[p].paystack_ref
          /\ payments'[p].locked_price_ref = payments[p].locked_price_ref
          /\ payments'[p].status # payments[p].status
               => \E h \in Handlers :
                     /\ pc[h] # pc'[h]
                     /\ loc[h].payment = p
                     /\ loc[h].verified.ok
                     /\ calls[p].verify >= 1
     /\ Len(payments') > Len(payments)
          => /\ Len(payments') = Len(payments) + 1
             /\ Len(links') = Len(links) + 1
             /\ payments'[Len(payments')].status = "pending"
     /\ (smsw' # smsw \/ rentw' # rentw \/ quotes' # quotes \/ priceCache' # priceCache)
          => payments' = payments]_vars

\* The Payment a link inserted as pending was settled by the webhook handler
\* after its verification call
C33_Witness ==
  /\ links # <<>>
  /\ links[1].new_payment \in 1..Len(payments)
  /\ payments[links[1].new_payment].status = "successful"
  /\ calls[links[1].new_payment].verify >= 1

(* --------------------------- claim C34 --------------------------------- *)
\* C34: shutdown stops a worker only between sweeps: the worker's task ends while
\* it is in the sleep of its loop, never inside a sweep
C34_CancelAtSweepBoundary ==
  [][(smsw.pc # "cancelled" /\ smsw'.pc = "cancelled") => smsw.pc = "sleep"]_vars

(* --------------------------- claim C35 --------------------------------- *)
\* C35: once a price is stored under a quote key, the value read under that key
\* stays the same until the entry expires, however concurrent requests for the
\* key interleave
C35_CachedQuoteImmutable ==
  [][\A key \in CacheKeys :
       (CachedPrice(key) # <<>> /\ now' < priceCache[key].until)
         => CachedPrice(key)' = CachedPrice(key)]_vars

(* --------------------------- claim C36 --------------------------------- *)
\* C36: a poll whose provider call failed at transport level, or whose service
\* list could not be fetched, leaves the Number active
C36_TransientKeepsActive ==
  [][\A n \in 1..Len(numbers) :
       (/\ smsw.pc = "poll"
        /\ smsw.asked.number = n
        /\ \/ ~smsw.asked.countries
           \/ smsw.asked.services = "failed"
           \/ smsw.asked.response = "none"
        /\ numbers[n].status = "active")
         => numbers'[n].status = "active"]_vars

(* --------------------------- claim C37 --------------------------------- *)
\* C37: an exception while one Number is processed does not keep the other
\* Numbers of the sweep from being polled: a sweep that ends on a failed send,
\* commit or redis write has no Number left in its queue but the one it was at
C37_FailureSparesOthers ==
  [][(smsw.pc \in {"notify", "persist", "mark"} /\ smsw'.pc = "sleep")
       => smsw.queue \subseteq {smsw.number}]_vars

(* --------------------------- claim C38 --------------------------------- *)
\* C38: a paid renewal the provider accepted leaves a usable Number: the commit
\* that extends expires_at leaves the Number active with its expiry in the
\* future, so it never extends a Number whose status is expired
C38_RenewalYieldsUsable ==
  [][\A h \in Handlers :
       pc[h] = "commit_renewal" /\ pc'[h] = "notify" =>
         LET n == loc[h].number
         IN /\ numbers'[n].status = "active"
            /\ numbers'[n].expires_at > now']_vars

(* --------------------------- claim C39 --------------------------------- *)
\* C39: the amount of a new-purchase Payment is 100 times the price that was
\* shown to the user with the quote key the Payment locks
C39_ChargedAmountMatchesQuote ==
  \A k \in 1..Len(links) :
     LET payment == payments[links[k].new_payment]
     IN /\ payment.locked_price_ref = PriceRefOf(quotes[links[k].shown].inputs)
        /\ payment.amount_ngn = 100 * quotes[links[k].shown].price

====
